---------------------------- MODULE Spec2Model ----------------------------
(***************************************************************************)
(* EarthsFirewall: the asteroid-defense game engine, the mitigation and    *)
(* impact calculators and the JSON routes of the api blueprint.            *)
(*                                                                         *)
(* Numbers.  Python floats are modelled by exact rationals [n, d] (d > 0,  *)
(* lowest terms) wherever a formula multiplies or divides, and by integers *)
(* where the inputs drawn keep the values integral.  Masses are counted in *)
(* units of 10^6 kg, positions in 1/8640 km, forces in thousandths.        *)
(* pi is 355/113.                                                          *)
(***************************************************************************)
EXTENDS Integers, Sequences, FiniteSets, TLC

VARIABLES
    \* ---- GameEngine fields (src/backend/simulation/game_engine.py) ----
    state, level, score, time_remaining, asteroid, simulation_time,
    game_start_time,
    ret,            \* what the last GameEngine call returned or raised
    \* ---- the Flask application (src/app.py, src/backend/api/routes.py) ----
    request,        \* [route, body] of the last POST
    response,       \* the status and the JSON the handler answered
    calculations,   \* the calculation methods the handler ran, in order
    \* ---- the calculator objects and the last call made on them ----
    mitigation_service,     \* MitigationSystem()
    usgs_service,           \* USGSSeismicService()
    impact_service,         \* ImpactSimulationService(nasa_service, usgs_service)
    impact_simulation,      \* an ImpactSimulation
    model_asteroid,         \* a models.asteroid.Asteroid
    asteroid_constructed,   \* model_asteroid as its constructor left it
    call,                   \* [op, args] of the last calculation
    out,                    \* what that call returned or raised
    \* ---- two request threads working on the global game_engine ----
    threads,        \* per thread: its call, its position in it, its locals
    snapshot,       \* the engine and the two calls when the threads started
    launches        \* how many pairs of requests were started

gameVars == <<state, level, score, time_remaining, asteroid, simulation_time,
              game_start_time, ret>>

None == "None"

\* An optional object is a set with at most one element: {} is Python's None
NoObject == {}
Some(x) == {x}
The(o) == CHOOSE x \in o : TRUE

----------------------------------------------------------------------------
\* Bounds of the model (not program constants).

\* attempt_deflection is explored while the score is below this cap
MaxScore == 2500

\* the route attempt-deflection is explored while the score is below this cap
MaxRouteScore == 100

\* pairs of concurrent requests are started this many times at most
MaxLaunches == 2

\* the delta_time values (seconds) a tick may carry, all >= 0
DeltaTimes == {0, 20, 60, 100}

\* np.random.uniform(10, 20) and np.random.uniform(2000, 4000): samples
Velocities == {10, 15}
Densities == {2000, 3000}

\* deflection_force values, in thousandths
Forces == {0, 500, 1000}

----------------------------------------------------------------------------
\* Exact arithmetic.  The(S) with S == {e : x \in {v}} is e with x bound to
\* the value of v: written this way the value of v is computed once, however
\* often e uses it.

RECURSIVE GCD(_, _)
GCD(a, b) ==
    The({IF y = 0 THEN (IF x < 0 THEN -x ELSE x)
         ELSE GCD(y, x % y) : x \in {a}, y \in {b}})

Abs(a) == The({IF x < 0 THEN -x ELSE x : x \in {a}})

\* the rational n/d in lowest terms, d > 0
Rat(n0, d0) ==
    The({[n |-> s * (n \div g), d |-> s * (d \div g)] :
            n \in {n0}, d \in {d0}, s \in {IF d0 < 0 THEN -1 ELSE 1},
            g \in {GCD(Abs(n0), Abs(d0))}})

RMul(a0, b0) ==
    The({The({Rat((a.n \div h1) * (b.n \div h2), (a.d \div h2) * (b.d \div h1)) :
                h1 \in {IF GCD(Abs(a.n), b.d) = 0 THEN 1 ELSE GCD(Abs(a.n), b.d)},
                h2 \in {IF GCD(Abs(b.n), a.d) = 0 THEN 1 ELSE GCD(Abs(b.n), a.d)}}) :
            a \in {a0}, b \in {b0}})

\* a / b for b # 0
RDiv(a, b0) == The({RMul(a, Rat(b.d, b.n)) : b \in {b0}})

\* min(1.0, x)
RMin1(x0) == The({IF x.n <= x.d THEN x ELSE Rat(1, 1) : x \in {x0}})

RLess(a0, b0) == The({a.n * b.d < b.n * a.d : a \in {a0}, b \in {b0}})
RLeq(a0, b0) == The({a.n * b.d <= b.n * a.d : a \in {a0}, b \in {b0}})

\* int(x) for a rational x: truncation toward zero
RInt(x0) ==
    The({IF x.n >= 0 THEN x.n \div x.d ELSE -((-x.n) \div x.d) : x \in {x0}})

RAdd(a0, b0) ==
    The({Rat(a.n * b.d + b.n * a.d, a.d * b.d) : a \in {a0}, b \in {b0}})

\* min(a, b)
RMin(a0, b0) == The({IF RLeq(a, b) THEN a ELSE b : a \in {a0}, b \in {b0}})

----------------------------------------------------------------------------
\* Floats whose size needs a decimal exponent: the value n/d * 10^e, in the
\* canonical form gcd(n, d) = 1, d > 0 coprime to 10, n not a multiple of 10.
\* k tells the kind of value:
\*   "fin"     the finite number n/d * 10^e
\*   "sqrt"    the positive square root of n/d * 10^e  ("nsqrt": its negative)
\*   "nan", "inf", "ninf"   the IEEE values numpy produces
\*   "real"    a positive real that is a fractional power, its value not tracked
\*             ("nreal": a negative one)
\*   "complex" a complex number (Python's negative ** fractional)
\* y counts the factors 365.25 * 24 * 3600 (the seconds of a year) that
\* multiply the value and pi the factors math.pi, so that the value is
\* n/d * 10^e * 31557600^y * math.pi^pi.
\* np is TRUE for a numpy.float64, whose division by zero does not raise.

RECURSIVE Canon(_, _, _)
Canon(n0, d0, e0) ==
    The({IF n = 0 THEN [n |-> 0, d |-> 1, e |-> 0]
         ELSE IF n % 10 = 0 THEN Canon(n \div 10, d, e + 1)
         ELSE IF d % 10 = 0 THEN Canon(n, d \div 10, e - 1)
         ELSE IF d % 2 = 0 THEN Canon(n * 5, d \div 2, e - 1)
         ELSE IF d % 5 = 0 THEN Canon(n * 2, d \div 5, e - 1)
         ELSE [n |-> n, d |-> d, e |-> e] :
            n \in {n0}, d \in {d0}, e \in {e0}})

Mk(k, n, d, e, np) ==
    The({The({[k |-> k, n |-> c.n, d |-> c.d, e |-> c.e, np |-> np,
               y |-> 0, pi |-> 0] : c \in {Canon(r.n, r.d, e)}}) :
            r \in {Rat(n, d)}})

\* x with y factors of the seconds of a year and pi factors of math.pi
Sym(x0, y, pi) ==
    The({IF x.n = 0 THEN x ELSE [x EXCEPT !.y = y, !.pi = pi] : x \in {x0}})

\* the Python number n/d * 10^e
F(n, d, e) == Mk("fin", n, d, e, FALSE)
FInt(i) == F(i, 1, 0)
FZero == F(0, 1, 0)
Special(k, np) ==
    [k |-> k, n |-> 0, d |-> 1, e |-> 0, np |-> np, y |-> 0, pi |-> 0]

FIsZero(x0) == The({x.k = "fin" /\ x.n = 0 : x \in {x0}})
FSign(x0) ==
    The({CASE x.k = "fin" -> (IF x.n > 0 THEN 1 ELSE IF x.n < 0 THEN -1 ELSE 0)
           [] x.k \in {"sqrt", "inf", "real"} -> 1
           [] x.k \in {"nsqrt", "ninf", "nreal"} -> -1
           [] OTHER -> 0 : x \in {x0}})

\* the product of the magnitudes n/d * 10^e of a and b
MulMag(a0, b0) ==
    The({The({Canon((a.n \div g1) * (b.n \div g2),
                    (a.d \div g2) * (b.d \div g1), a.e + b.e) :
                g1 \in {GCD(Abs(a.n), b.d)}, g2 \in {GCD(Abs(b.n), a.d)}}) :
            a \in {a0}, b \in {b0}})

Flip(k) ==
    CASE k = "sqrt" -> "nsqrt" [] k = "nsqrt" -> "sqrt"
      [] k = "inf" -> "ninf"   [] k = "ninf" -> "inf"
      [] k = "real" -> "nreal" [] k = "nreal" -> "real"
      [] OTHER -> k

\* x * f for a finite f
FMul(x0, f0) ==
    The({CASE x.k = "fin" ->
                The({Sym(Mk("fin", m.n, m.d, m.e, np), x.y + f.y, x.pi + f.pi) :
                        m \in {MulMag(x, f)}})
           [] x.k \in {"sqrt", "nsqrt"} ->
                IF f.n = 0 THEN Mk("fin", 0, 1, 0, np)
                ELSE The({Sym(Mk(IF f.n < 0 THEN Flip(x.k) ELSE x.k,
                                 m.n, m.d, m.e, np), x.y + f.y, x.pi + f.pi) :
                             m \in {MulMag(x, MulMag(f, f))}})
           [] x.k \in {"inf", "ninf"} ->
                IF f.n = 0 THEN Special("nan", np)
                ELSE Special(IF f.n < 0 THEN Flip(x.k) ELSE x.k, np)
           [] x.k \in {"real", "nreal"} ->
                IF f.n = 0 THEN Mk("fin", 0, 1, 0, np)
                ELSE Special(IF f.n < 0 THEN Flip(x.k) ELSE x.k, np)
           [] OTHER -> Special(x.k, np) :
            x \in {x0}, f \in {f0}, np \in {x0.np \/ f0.np}})

\* 1 / f for a finite f # 0
FInv(f0) == The({Sym(Mk("fin", f.d, f.n, -f.e, f.np), -f.y, -f.pi) : f \in {f0}})

\* x / f for a finite f; a zero divisor is the numpy result (inf or nan),
\* the caller raises ZeroDivisionError first where Python does
FDiv(x0, f0) ==
    The({IF f.n = 0
         THEN (IF FSign(x) > 0 THEN Special("inf", x.np \/ f.np)
               ELSE IF FSign(x) < 0 THEN Special("ninf", x.np \/ f.np)
               ELSE Special("nan", x.np \/ f.np))
         ELSE FMul(x, FInv(f)) : x \in {x0}, f \in {f0}})

\* whether Python raises ZeroDivisionError on x / f
DivRaises(x, f0) == The({f.n = 0 /\ ~x.np /\ ~f.np : f \in {f0}})

\* np.sqrt(x) for a finite x
NpSqrt(x0) ==
    The({IF x.n < 0 THEN Special("nan", TRUE)
         ELSE IF x.n = 0 THEN Mk("fin", 0, 1, 0, TRUE)
         ELSE [k |-> "sqrt", n |-> x.n, d |-> x.d, e |-> x.e, np |-> TRUE,
               y |-> 0, pi |-> 0] : x \in {x0}})

\* base ** (p/q), a fractional exponent strictly between 0 and 1
FracPow(base0, p, q) ==
    The({IF base.n < 0 THEN Special("complex", FALSE)
         ELSE IF base.n = 0 THEN FZero
         ELSE IF base = FInt(1) THEN FInt(1)
         ELSE Special("real", FALSE) : base \in {base0}})

\* a product of cost factors, each finite, real or complex
CostMul(a0, b0) ==
    The({IF a.k = "complex" \/ b.k = "complex" THEN Special("complex", FALSE)
         ELSE IF FIsZero(a) \/ FIsZero(b) THEN FZero
         ELSE IF a.k \in {"real", "nreal"} \/ b.k \in {"real", "nreal"}
              THEN Special(IF FSign(a) * FSign(b) > 0 THEN "real" ELSE "nreal",
                           FALSE)
         ELSE FMul(a, b) : a \in {a0}, b \in {b0}})

\* a tenth of the largest machine integer
IntLimit == 2147483647 \div 10

\* n * 10^e against m for n, m > 0, without leaving the machine integers:
\* 1 when greater, 0 when equal, -1 when less
RECURSIVE ScaledCmp(_, _, _)
ScaledCmp(n0, e0, m0) ==
    The({IF e = 0 THEN (IF n > m THEN 1 ELSE IF n = m THEN 0 ELSE -1)
         ELSE IF e > 0
              THEN (IF n > m \/ n > IntLimit THEN 1
                    ELSE ScaledCmp(n * 10, e - 1, m))
              ELSE (IF m > n \/ m > IntLimit THEN -1
                    ELSE ScaledCmp(n, e + 1, m * 10)) :
            n \in {n0}, e \in {e0}, m \in {m0}})

\* n * 10^e cut to a mantissa of four digits, rounded down or up
RECURSIVE Cut(_, _, _)
Cut(n0, e0, up) ==
    The({IF n <= 9999 THEN [n |-> n, e |-> e]
         ELSE Cut((IF up THEN n + 9 ELSE n) \div 10, e + 1, up) :
            n \in {n0}, e \in {e0}})

\* a bound of n * 10^e * 31557600^y, from below or from above
RECURSIVE YearsBound(_, _, _, _)
YearsBound(n0, e0, y, up) ==
    The({IF y = 0 THEN [n |-> n, e |-> e]
         ELSE The({YearsBound(c.n * (IF up THEN 31558 ELSE 31557), c.e + 3,
                              y - 1, up) : c \in {Cut(n, e, up)}}) :
            n \in {n0}, e \in {e0}})

\* n * 10^e * 31557600^y > m for n, m > 0 and y >= 0: decided by the bound
\* from below, which the bound from above confirms when the answer is no
MagGreater(n0, e0, y0, m0) ==
    The({The({IF ScaledCmp(lo.n, lo.e, m) = 1 THEN TRUE
              ELSE IF ScaledCmp(hi.n, hi.e, m) # 1 THEN FALSE
              ELSE y = 0 /\ ScaledCmp(n, e, m) = 1 :
                lo \in {YearsBound(n, e, y, FALSE)},
                hi \in {YearsBound(n, e, y, TRUE)}}) :
            n \in {n0}, e \in {e0}, y \in {y0}, m \in {m0}})

\* x > c for an integer c > 0
FGreater(x0, c) ==
    The({CASE x.k = "fin" -> x.n > 0 /\ MagGreater(x.n, x.e, x.y, c * x.d)
           [] x.k = "sqrt" -> MagGreater(x.n, x.e, 2 * x.y, c * c * x.d)
           [] x.k = "inf" -> TRUE
           [] OTHER -> FALSE : x \in {x0}})

\* x < c for a finite x and an integer c > 0
FLess(x0, c) ==
    The({x.n <= 0 \/ ScaledCmp(x.n, x.e, c * x.d) = -1 : x \in {x0}})

\* 10^k for k >= 0
RECURSIVE Pow10(_)
Pow10(k0) == The({IF k = 0 THEN 1 ELSE 10 * Pow10(k - 1) : k \in {k0}})

\* a + b for finite a, b
FAdd(a0, b0) ==
    The({The({Mk("fin", an * b.d + bn * a.d, a.d * b.d, m, a.np \/ b.np) :
                an \in {a.n * Pow10(a.e - m)}, bn \in {b.n * Pow10(b.e - m)}}) :
            a \in {a0}, b \in {b0}, m \in {IF a0.e < b0.e THEN a0.e ELSE b0.e}})

\* x * x
FSquare(x0) ==
    The({IF x.k \in {"sqrt", "nsqrt"}
         THEN Sym(Mk("fin", x.n, x.d, x.e, x.np), 2 * x.y, 2 * x.pi)
         ELSE FMul(x, x) : x \in {x0}})

\* math.sqrt(x) for a finite x >= 0
MathSqrt(x0) ==
    The({IF x.n = 0 THEN Mk("fin", 0, 1, 0, x.np)
         ELSE [k |-> "sqrt", n |-> x.n, d |-> x.d, e |-> x.e, np |-> x.np,
               y |-> 0, pi |-> 0] : x \in {x0}})

\* the same number, whatever the float type
FEq(a0, b0) ==
    The({a.k = b.k /\ a.n = b.n /\ a.d = b.d /\ a.e = b.e /\ a.y = b.y
         /\ a.pi = b.pi : a \in {a0}, b \in {b0}})

\* math.pi
Pi == Sym(FInt(1), 0, 1)

\* sin of an angle in degrees, for the angles with an exact value
SinDeg(angle) ==
    CASE angle = 0 -> FZero
      [] angle = 30 -> F(1, 2, 0)
      [] angle = 45 -> MathSqrt(F(1, 2, 0))
      [] angle = 90 -> FInt(1)

\* coef * math.pi^pi * base ** (exp / 1000): a fractional power kept as written
PowTerm(coef, pi, base, exp) ==
    [coef |-> coef, pi |-> pi, base |-> base, exp |-> exp]

----------------------------------------------------------------------------
\* Program constants (src/backend/utils/constants.py).

GAME_LEVELS ==
    [l \in 1..5 |->
        CASE l = 1 -> [asteroid_size |-> 10,   time_limit |-> 300, difficulty |-> "Easy"]
          [] l = 2 -> [asteroid_size |-> 50,   time_limit |-> 240, difficulty |-> "Medium"]
          [] l = 3 -> [asteroid_size |-> 100,  time_limit |-> 180, difficulty |-> "Hard"]
          [] l = 4 -> [asteroid_size |-> 500,  time_limit |-> 120, difficulty |-> "Expert"]
          [] l = 5 -> [asteroid_size |-> 1000, time_limit |-> 60,  difficulty |-> "Nightmare"]]

BASE_SCORE == 1000

\* DEFLECTION_EFFICIENCY = 0.5
DEFLECTION_EFFICIENCY == Rat(1, 2)

\* Earth radius in km, the literal of _check_impact
EARTH_RADIUS == 6371

\* position units per km: 86400 s/day over the 0.1 factor of the z step
PosScale == 86400 \div 10

\* 1e12 kg and 1e10 kg in mass units of 10^6 kg
Mass1e12 == Rat(1000000, 1)
Mass1e10 == Rat(10000, 1)

----------------------------------------------------------------------------
\* calculations/impact_physics.py and calculations/mitigation.py

\* mass = (4/3) * pi * (diameter_km * 1000 / 2)^3 * density, in 10^6 kg;
\* size is the diameter in metres (a multiple of 10), density a multiple of 1000
calculate_mass_from_diameter(size, density) ==
    Rat(355 * ((size * size * size) \div 1000) * (density \div 1000), 678)

\* the product of the four factors with neither min(1.0, ...) applied
calculate_kinetic_impactor_deflection_uncapped(asteroid_mass, force) ==
    LET base_deflection == Rat(3, 10)
        mass_factor == RDiv(Mass1e12, asteroid_mass)
    IN  RMul(RMul(RMul(base_deflection, mass_factor), force),
             DEFLECTION_EFFICIENCY)

\* force is the deflection_force as a rational
calculate_kinetic_impactor_deflection(asteroid_mass, force) ==
    LET base_deflection == Rat(3, 10)
        mass_factor == RMin1(RDiv(Mass1e12, asteroid_mass))
        force_factor == force
        deflection_percentage ==
            RMul(RMul(RMul(base_deflection, mass_factor), force_factor),
                 DEFLECTION_EFFICIENCY)
    IN  RMin1(deflection_percentage)

calculate_gravity_tractor_deflection(asteroid_mass, force) ==
    LET base_deflection == Rat(2, 10)
        mass_factor == RMin1(RDiv(asteroid_mass, Mass1e12))
        force_factor == force
        deflection_percentage ==
            RMul(RMul(RMul(base_deflection, mass_factor), force_factor),
                 DEFLECTION_EFFICIENCY)
    IN  RMin1(deflection_percentage)

calculate_laser_ablation_deflection(asteroid_mass, force) ==
    LET base_deflection == Rat(4, 10)
        mass_factor == RMin1(RDiv(Mass1e10, asteroid_mass))
        force_factor == RMul(force, force)
        deflection_percentage ==
            RMul(RMul(RMul(base_deflection, mass_factor), force_factor),
                 DEFLECTION_EFFICIENCY)
    IN  RMin1(deflection_percentage)

----------------------------------------------------------------------------
\* GameEngine

GameStates == {"menu", "playing", "paused", "game_over", "victory"}
DefenseStrategies == {"kinetic", "gravity", "laser"}

\* Asteroid(name, diameter, velocity, density): __post_init__ sets the mass,
\* the position keeps its default (0, 0, 0)
NewAsteroid(lvl, size, velocity, density) ==
    [name |-> lvl, diameter |-> size, velocity |-> velocity,
     density |-> density,
     mass |-> calculate_mass_from_diameter(size, density),
     position |-> <<0, 0, 0>>]

_create_asteroid_for_level(lvl, level_config, velocity, density) ==
    NewAsteroid(lvl, level_config.asteroid_size, velocity, density)

_calculate_deflection_score(deflection_percentage) ==
    RInt(Rat(BASE_SCORE * deflection_percentage.d
               + deflection_percentage.n * 1000,
             deflection_percentage.d))

\* the asteroid moved by one tick of delta_time seconds
_update_asteroid_position(a, delta_time) ==
    LET velocity_factor == (a.velocity * delta_time) \div 10
    IN  [a EXCEPT !.position =
            <<a.position[1] - velocity_factor,
              a.position[2],
              a.position[3] - (velocity_factor \div 10)>>]

\* np.linalg.norm(position) < 6371
_check_impact(a) ==
    LET p == a.position
        r == EARTH_RADIUS * PosScale
    IN  (p[1] * p[1] + p[2] * p[2] + p[3] * p[3]) \div r < r

GameInit ==
    /\ state = "menu"
    /\ level = 1
    /\ score = 0
    /\ time_remaining = 0
    /\ asteroid = NoObject
    /\ simulation_time = 0
    /\ game_start_time = None
    /\ ret = [op |-> "init"]

\* start_game with the score of the game before left standing
start_game_keeps_score(lvl) ==
    IF lvl \notin DOMAIN GAME_LEVELS
    THEN /\ ret' = [op |-> "start_game", level |-> lvl, raised |-> "ValueError"]
         /\ UNCHANGED <<state, level, score, time_remaining, asteroid,
                        simulation_time, game_start_time>>
    ELSE \E velocity \in Velocities, density \in Densities :
         /\ level' = lvl
         /\ state' = "playing"
         /\ score' = score
         /\ simulation_time' = 0
         /\ game_start_time' = "now"
         /\ asteroid' = Some(_create_asteroid_for_level(lvl, GAME_LEVELS[lvl],
                                                        velocity, density))
         /\ time_remaining' = GAME_LEVELS[lvl].time_limit
         /\ ret' = [op |-> "start_game", level |-> lvl, raised |-> None]

\* start_game with the clock of the game before left running
start_game_keeps_clock(lvl) ==
    IF lvl \notin DOMAIN GAME_LEVELS
    THEN /\ ret' = [op |-> "start_game", level |-> lvl, raised |-> "ValueError"]
         /\ UNCHANGED <<state, level, score, time_remaining, asteroid,
                        simulation_time, game_start_time>>
    ELSE \E velocity \in Velocities, density \in Densities :
         /\ level' = lvl
         /\ state' = "playing"
         /\ score' = 0
         /\ simulation_time' = simulation_time
         /\ game_start_time' = "now"
         /\ asteroid' = Some(_create_asteroid_for_level(lvl, GAME_LEVELS[lvl],
                                                        velocity, density))
         /\ time_remaining' = GAME_LEVELS[lvl].time_limit
         /\ ret' = [op |-> "start_game", level |-> lvl, raised |-> None]

\* ret keeps the level the call was given
start_game(lvl) ==
    IF lvl \notin DOMAIN GAME_LEVELS
    THEN /\ ret' = [op |-> "start_game", level |-> lvl, raised |-> "ValueError"]
         /\ UNCHANGED <<state, level, score, time_remaining, asteroid,
                        simulation_time, game_start_time>>
    ELSE \E velocity \in Velocities, density \in Densities :
         /\ level' = lvl
         /\ state' = "playing"
         /\ score' = 0
         /\ simulation_time' = 0
         /\ game_start_time' = "now"
         /\ asteroid' = Some(_create_asteroid_for_level(lvl, GAME_LEVELS[lvl],
                                                        velocity, density))
         /\ time_remaining' = GAME_LEVELS[lvl].time_limit
         /\ ret' = [op |-> "start_game", level |-> lvl, raised |-> None]

attempt_deflection(strategy, force) ==
    IF asteroid = NoObject
    THEN /\ ret' = [op |-> "attempt_deflection", raised |-> "ValueError"]
         /\ UNCHANGED <<state, level, score, time_remaining, asteroid,
                        simulation_time, game_start_time>>
    ELSE LET f == Rat(force, 1000)
             mass == The(asteroid).mass
             deflection_percentage ==
                CASE strategy = "kinetic" ->
                        calculate_kinetic_impactor_deflection(mass, f)
                  [] strategy = "gravity" ->
                        calculate_gravity_tractor_deflection(mass, f)
                  [] strategy = "laser" ->
                        calculate_laser_ablation_deflection(mass, f)
             success == RLess(Rat(1, 10), deflection_percentage)
         IN  /\ score' = IF success
                         THEN score + _calculate_deflection_score(deflection_percentage)
                         ELSE score
             /\ ret' = [op |-> "attempt_deflection", raised |-> None,
                        success |-> success]
             /\ UNCHANGED <<state, level, time_remaining, asteroid,
                            simulation_time, game_start_time>>

\* update_game_state when the state is not PLAYING
update_idle ==
    /\ ret' = [op |-> "update_game_state", state |-> state]
    /\ UNCHANGED <<state, level, score, time_remaining, asteroid,
                   simulation_time, game_start_time>>

\* the asteroid is moved and tested for impact before the time is tested
update_playing_moves_first(delta_time) ==
    /\ simulation_time' = simulation_time + delta_time
    /\ time_remaining' = time_remaining - delta_time
    /\ UNCHANGED <<level, score, game_start_time>>
    /\ LET moved == _update_asteroid_position(The(asteroid), delta_time)
       IN  /\ asteroid' = Some(moved)
           /\ IF _check_impact(moved)
              THEN /\ state' = "game_over"
                   /\ ret' = [op |-> "update_game_state", state |-> "game_over",
                              score |-> score, reason |-> "impact"]
              ELSE IF time_remaining - delta_time <= 0
              THEN /\ state' = "game_over"
                   /\ ret' = [op |-> "update_game_state", state |-> "game_over",
                              score |-> score, reason |-> "time_up"]
              ELSE /\ state' = state
                   /\ ret' = [op |-> "update_game_state", state |-> state,
                              time_remaining |-> time_remaining - delta_time,
                              score |-> score,
                              asteroid_position |-> Some(moved.position)]

\* update_game_state in state PLAYING
update_playing(delta_time) ==
    /\ simulation_time' = simulation_time + delta_time
    /\ time_remaining' = time_remaining - delta_time
    /\ UNCHANGED <<level, score, game_start_time>>
    /\ IF time_remaining - delta_time <= 0
       THEN /\ state' = "game_over"
            /\ asteroid' = asteroid
            /\ ret' = [op |-> "update_game_state", state |-> "game_over",
                       score |-> score, reason |-> "time_up"]
       ELSE IF asteroid # NoObject
            THEN LET moved == _update_asteroid_position(The(asteroid), delta_time)
                 IN  /\ asteroid' = Some(moved)
                     /\ IF _check_impact(moved)
                        THEN /\ state' = "game_over"
                             /\ ret' = [op |-> "update_game_state",
                                        state |-> "game_over",
                                        score |-> score,
                                        reason |-> "impact"]
                        ELSE /\ state' = state
                             /\ ret' = [op |-> "update_game_state",
                                        state |-> state,
                                        time_remaining |->
                                           time_remaining - delta_time,
                                        score |-> score,
                                        asteroid_position |->
                                           Some(moved.position)]
            ELSE /\ UNCHANGED <<state, asteroid>>
                 /\ ret' = [op |-> "update_game_state", state |-> state,
                            time_remaining |-> time_remaining - delta_time,
                            score |-> score,
                            asteroid_position |-> NoObject]

\* update_game_state going on while the game is paused
update_game_state_while_paused(delta_time) ==
    IF state \notin {"playing", "paused"}
    THEN update_idle
    ELSE update_playing(delta_time)

\* ret is the dictionary returned
update_game_state(delta_time) ==
    IF state # "playing"
    THEN update_idle
    ELSE update_playing(delta_time)

\* resume_game without the test of the state
resume_game_from_any_state ==
    /\ state' = "playing"
    /\ ret' = [op |-> "resume_game"]
    /\ UNCHANGED <<level, score, time_remaining, asteroid, simulation_time,
                   game_start_time>>

pause_game ==
    /\ state' = IF state = "playing" THEN "paused" ELSE state
    /\ ret' = [op |-> "pause_game"]
    /\ UNCHANGED <<level, score, time_remaining, asteroid, simulation_time,
                   game_start_time>>

resume_game ==
    /\ state' = IF state = "paused" THEN "playing" ELSE state
    /\ ret' = [op |-> "resume_game"]
    /\ UNCHANGED <<level, score, time_remaining, asteroid, simulation_time,
                   game_start_time>>

\* reset_game with the score left as it was
reset_game_keeps_score ==
    /\ state' = "menu"
    /\ level' = 1
    /\ score' = score
    /\ time_remaining' = 0
    /\ asteroid' = NoObject
    /\ simulation_time' = 0
    /\ game_start_time' = None
    /\ ret' = [op |-> "reset_game"]

reset_game ==
    /\ state' = "menu"
    /\ level' = 1
    /\ score' = 0
    /\ time_remaining' = 0
    /\ asteroid' = NoObject
    /\ simulation_time' = 0
    /\ game_start_time' = None
    /\ ret' = [op |-> "reset_game"]

\* get_game_status: the dictionary built from the fields
get_game_status ==
    [state |-> state, level |-> level, score |-> score,
     time_remaining |-> time_remaining,
     asteroid |-> asteroid]

----------------------------------------------------------------------------
\* api/mitigation_system.py

\* The outcome of evaluating a block: a value, or the exception it raised
Ok(v) == [raised |-> None, value |-> v]
Raise(exc) == [raised |-> exc]

\* try: body  except Exception: return handler_value.  propagated is the
\* exception that leaves the method, caught the one the handler absorbed
TryExcept(body0, handler_value) ==
    The({IF body.raised # None
         THEN [propagated |-> None, caught |-> body.raised,
               value |-> handler_value]
         ELSE [propagated |-> None, caught |-> None, value |-> body.value] :
            body \in {body0}})

\* dict.get(key, default) for a dictionary given as a function
Get(dict, key, default) == IF key \in DOMAIN dict THEN dict[key] ELSE default

DictGet(dict, key) == (CHOOSE p \in dict : p[1] = key)[2]

\* MitigationSystem.__init__
NewMitigationSystem ==
    [gravitational_constant |-> F(667430, 1, -16),
     earth_mass |-> F(5972, 1, 21),
     sun_mass |-> F(1989, 1, 27),
     au_to_meters |-> F(1496, 1, 8)]

\* the DeflectionResult of every except branch
ZeroedDeflectionResult ==
    [success |-> FALSE,
     velocity_change |-> FZero,
     orbital_change |-> {},
     deflection_distance |-> FZero,
     confidence_level |-> Rat(0, 1),
     mission_cost |-> FZero,
     mission_duration |-> FZero]

\* 365.25 * 24 * 3600
SecondsPerYear == Sym(FInt(1), 1, 0)

_calculate_orbital_deflection(velocity_change0, deflection_time, impact_velocity) ==
    The({LET time_to_impact == FMul(FInt(deflection_time), SecondsPerYear)
             deflection_distance ==
                FDiv(FMul(velocity_change, time_to_impact), FInt(1000))
         IN  IF DivRaises(velocity_change, FInt(impact_velocity))
             THEN Raise("ZeroDivisionError")
             ELSE The({Ok({<<"semi_major_axis_change", FMul(ratio, F(1, 100, 0))>>,
                           <<"eccentricity_change", FMul(ratio, F(1, 1000, 0))>>,
                           <<"inclination_change", FMul(ratio, F(1, 10, 0))>>,
                           <<"deflection_distance", deflection_distance>>}) :
                         ratio \in {FDiv(velocity_change, FInt(impact_velocity))}}) :
            velocity_change \in {velocity_change0}})

_estimate_kinetic_impactor_cost(spacecraft_mass, deflection_time) ==
    LET base_cost == F(325, 1, 6)
        mass_factor == FracPow(FDiv(FInt(spacecraft_mass), FInt(500)), 1, 2)
    IN  IF deflection_time = 0
        THEN Raise("ZeroDivisionError")
        ELSE Ok(CostMul(CostMul(base_cost, mass_factor),
                        FracPow(FDiv(FInt(10), FInt(deflection_time)), 3, 10)))

_estimate_gravity_tractor_cost(spacecraft_mass, deflection_time) ==
    LET base_cost == F(500, 1, 6)
        mass_factor == FracPow(FDiv(FInt(spacecraft_mass), FInt(1000)), 6, 10)
        time_factor == FDiv(FInt(deflection_time), FInt(5))
    IN  Ok(CostMul(CostMul(base_cost, mass_factor), time_factor))

\* ion_beam_thrust is counted in tenths of a newton
_estimate_ion_beam_cost(ion_beam_thrust, deflection_time) ==
    LET base_cost == F(800, 1, 6)
        thrust_factor == FracPow(FDiv(F(ion_beam_thrust, 10, 0), F(1, 10, 0)), 4, 10)
        time_factor == FDiv(FInt(deflection_time), FInt(3))
    IN  Ok(CostMul(CostMul(base_cost, thrust_factor), time_factor))

_estimate_nuclear_cost(nuclear_yield_megatons, deflection_time) ==
    LET base_cost == F(2000, 1, 6)
        yield_factor == FracPow(FDiv(FInt(nuclear_yield_megatons), FInt(1)), 3, 10)
    IN  IF deflection_time = 0
        THEN Raise("ZeroDivisionError")
        ELSE Ok(CostMul(CostMul(base_cost, yield_factor),
                        FracPow(FDiv(FInt(1), FInt(deflection_time)), 1, 2)))

\* the statements of a try block after velocity_change is known: cap is the
\* ceiling of the confidence, base and slope its line in deflection_time
DeflectionTail(velocity_change0, deflection_time, impact_velocity, cost0, cap, base, slope) ==
    The({The({IF orbital_deflection.raised # None THEN orbital_deflection
              ELSE IF cost.raised # None THEN cost
              ELSE The({Ok([success |-> FGreater(deflection_distance, 6371),
                            velocity_change |-> velocity_change,
                            orbital_change |-> orbital_deflection.value,
                            deflection_distance |-> deflection_distance,
                            confidence_level |->
                               RMin(cap, RAdd(base, RMul(slope,
                                                         Rat(deflection_time, 1)))),
                            mission_cost |-> cost.value,
                            mission_duration |-> FInt(deflection_time)]) :
                          deflection_distance \in
                             {DictGet(orbital_deflection.value,
                                      "deflection_distance")}}) :
                orbital_deflection \in
                   {_calculate_orbital_deflection(velocity_change, deflection_time,
                                                  impact_velocity)}}) :
            velocity_change \in {velocity_change0}, cost \in {cost0}})

\* approach_velocity is counted in tenths of a km/s
MitigationSystem_calculate_kinetic_impactor_deflection(self, asteroid_mass, spacecraft_mass, approach_velocity, deflection_time, impact_velocity) ==
    TryExcept(
        LET momentum_transfer_efficiency == F(35, 10, 0)
            momentum_change ==
                FMul(FMul(FInt(spacecraft_mass), F(approach_velocity, 10, 0)),
                     momentum_transfer_efficiency)
        IN  IF asteroid_mass = 0 THEN Raise("ZeroDivisionError")
            ELSE DeflectionTail(
                    FDiv(momentum_change, FInt(asteroid_mass)),
                    deflection_time, impact_velocity,
                    _estimate_kinetic_impactor_cost(spacecraft_mass, deflection_time),
                    Rat(95, 100), Rat(5, 10), Rat(1, 10)),
        ZeroedDeflectionResult)

MitigationSystem_calculate_gravity_tractor_deflection(self, asteroid_mass, spacecraft_mass, hover_distance, deflection_time, impact_velocity) ==
    TryExcept(
        IF hover_distance * hover_distance = 0 THEN Raise("ZeroDivisionError")
        ELSE LET gravitational_force ==
                    FDiv(FMul(FMul(self.gravitational_constant,
                                   FInt(spacecraft_mass)), FInt(asteroid_mass)),
                         FInt(hover_distance * hover_distance))
             IN  IF asteroid_mass = 0 THEN Raise("ZeroDivisionError")
                 ELSE LET asteroid_acceleration ==
                             FDiv(gravitational_force, FInt(asteroid_mass))
                          velocity_change ==
                             FMul(asteroid_acceleration,
                                  FMul(FInt(deflection_time), SecondsPerYear))
                      IN  DeflectionTail(
                             velocity_change, deflection_time, impact_velocity,
                             _estimate_gravity_tractor_cost(spacecraft_mass,
                                                            deflection_time),
                             Rat(8, 10), Rat(3, 10), Rat(5, 100)),
        ZeroedDeflectionResult)

MitigationSystem_calculate_ion_beam_deflection(self, asteroid_mass, ion_beam_thrust, deflection_time, impact_velocity) ==
    TryExcept(
        LET total_impulse ==
                FMul(F(ion_beam_thrust, 10, 0),
                     FMul(FInt(deflection_time), SecondsPerYear))
        IN  IF asteroid_mass = 0 THEN Raise("ZeroDivisionError")
            ELSE DeflectionTail(
                    FDiv(total_impulse, FInt(asteroid_mass)),
                    deflection_time, impact_velocity,
                    _estimate_ion_beam_cost(ion_beam_thrust, deflection_time),
                    Rat(9, 10), Rat(6, 10), Rat(1, 10)),
        ZeroedDeflectionResult)

MitigationSystem_calculate_nuclear_deflection(self, asteroid_mass, nuclear_yield_megatons, detonation_distance, deflection_time, impact_velocity) ==
    TryExcept(
        LET nuclear_yield_joules ==
                FMul(FInt(nuclear_yield_megatons), F(4184, 1, 12))
            momentum_transfer ==
                NpSqrt(FMul(FMul(FInt(2), nuclear_yield_joules),
                            FInt(asteroid_mass)))
            velocity_change == FDiv(momentum_transfer, FInt(asteroid_mass))
        IN  DeflectionTail(
                velocity_change, deflection_time, impact_velocity,
                _estimate_nuclear_cost(nuclear_yield_megatons, deflection_time),
                Rat(7, 10), Rat(4, 10), Rat(5, 100)),
        ZeroedDeflectionResult)

----------------------------------------------------------------------------
\* calculations/impact_physics.py, models/impact.py, api/nasa_integration.py

\* mass_kg and velocity_km_s are Python numbers
calculate_kinetic_energy(mass_kg, velocity_km_s) ==
    LET velocity_ms == FMul(velocity_km_s, FInt(1000))
    IN  FMul(FMul(F(1, 2, 0), mass_kg), FSquare(velocity_ms))

ImpactSimulation_calculate_impact_energy(self, mass, velocity, angle) ==
    LET effective_mass == FMul(SinDeg(angle), mass)
        velocity_ms == FMul(velocity, FInt(1000))
    IN  FMul(FMul(effective_mass, F(1, 2, 0)), FSquare(velocity_ms))

ImpactSimulationService_calculate_impact_energy(self, asteroid_obj, impact_velocity, impact_angle) ==
    LET effective_mass == FMul(SinDeg(impact_angle), asteroid_obj.mass)
    IN  FMul(FMul(effective_mass, F(1, 2, 0)),
             FSquare(FMul(impact_velocity, FInt(1000))))

ImpactSimulation_energy_to_tnt_equivalent(self, energy_joules) ==
    FDiv(energy_joules, F(4184, 1, 12))

\* pi * (diameter / 2) ** 2 * depth, with diameter = coef * base ** 0.294 and
\* depth = diameter * ratio
CraterVolume(coef, ratio, base) ==
    PowTerm(RMul(RDiv(RMul(coef, coef), Rat(4, 1)), RMul(coef, ratio)),
            1, base, 882)

\* (log10(arg) - 4.8) / 1.5, kept as written
MagnitudeOf(arg) == [log10 |-> arg, minus |-> Rat(48, 10), over |-> Rat(15, 10)]

ImpactSimulation_energy_to_magnitude(self, energy_joules) ==
    IF energy_joules.n <= 0 THEN FZero
    ELSE MagnitudeOf(energy_joules)

USGSSeismicService_get_equivalent_magnitude(self, energy_joules) ==
    MagnitudeOf(FMul(energy_joules, F(1, 1, 7)))

ImpactSimulation_calculate_crater_dimensions(self, energy_joules) ==
    LET tnt_equivalent == ImpactSimulation_energy_to_tnt_equivalent(self, energy_joules)
        simple == FLess(tnt_equivalent, 1000000)
        coef == IF simple THEN Rat(12, 10) ELSE Rat(18, 10)
        ratio == IF simple THEN Rat(1, 5) ELSE Rat(1, 10)
    IN  [diameter_km |-> PowTerm(coef, 0, tnt_equivalent, 294),
         depth_km |-> PowTerm(RMul(coef, ratio), 0, tnt_equivalent, 294),
         volume_km3 |-> CraterVolume(coef, ratio, tnt_equivalent),
         tnt_equivalent_megatons |-> tnt_equivalent]

\* the crater dimensions with the TNT equivalent left in tons
ImpactSimulationService_calculate_crater_dimensions_in_tons(self, energy_joules) ==
    LET tnt_equivalent == FDiv(energy_joules, F(4184, 1, 6))
        base == FDiv(tnt_equivalent, FInt(1000000))
        simple == FLess(tnt_equivalent, 1000000)
        coef == IF simple THEN Rat(12, 10) ELSE Rat(18, 10)
        ratio == IF simple THEN Rat(1, 5) ELSE Rat(1, 10)
    IN  [diameter_km |-> PowTerm(coef, 0, base, 294),
         depth_km |-> PowTerm(RMul(coef, ratio), 0, base, 294),
         volume_km3 |-> CraterVolume(coef, ratio, base),
         tnt_equivalent_megatons |-> tnt_equivalent]

ImpactSimulationService_calculate_crater_dimensions(self, energy_joules) ==
    LET tnt_equivalent == FDiv(energy_joules, F(4184, 1, 6))
        base == FDiv(tnt_equivalent, FInt(1000000))
        simple == FLess(tnt_equivalent, 1000000)
        coef == IF simple THEN Rat(12, 10) ELSE Rat(18, 10)
        ratio == IF simple THEN Rat(1, 5) ELSE Rat(1, 10)
    IN  [diameter_km |-> PowTerm(coef, 0, base, 294),
         depth_km |-> PowTerm(RMul(coef, ratio), 0, base, 294),
         volume_km3 |-> CraterVolume(coef, ratio, base),
         tnt_equivalent_megatons |-> FDiv(tnt_equivalent, FInt(1000000))]

\* 1000 * (tnt_equivalent ** (1/3)) / (distance ** 2) > threshold for
\* tnt_equivalent > 0, distance > 0 and an integer threshold > 0, decided on
\* the cubes: tnt_equivalent * 10^9 > (threshold * distance^2)^3
OverpressureExceeds(tnt0, distance, threshold) ==
    The({The({ScaledCmp(tnt.n, tnt.e + 9 - 3 * c.e,
                        tnt.d * c.n * c.n * c.n) = 1 :
                c \in {Canon(threshold * distance * distance, 1, 0)}}) :
            tnt \in {tnt0}})

\* the overpressure, kept as written; a negative numpy number to the power
\* 1/3 is nan
Overpressure(tnt_equivalent, distance) ==
    IF tnt_equivalent.n < 0 THEN Special("nan", TRUE)
    ELSE [thousand_cbrt_of |-> tnt_equivalent, over_square_of |-> distance]

\* the if/elif chain on the overpressure with two of its labels exchanged
DamageLevelLabelsExchanged(tnt_equivalent, distance) ==
    IF tnt_equivalent.n <= 0 THEN "No significant damage"
    ELSE IF OverpressureExceeds(tnt_equivalent, distance, 200)
    THEN "Complete destruction"
    ELSE IF OverpressureExceeds(tnt_equivalent, distance, 100)
    THEN "Light damage"
    ELSE IF OverpressureExceeds(tnt_equivalent, distance, 50)
    THEN "Moderate damage"
    ELSE IF OverpressureExceeds(tnt_equivalent, distance, 20)
    THEN "Severe damage"
    ELSE "No significant damage"

\* the if/elif chain on the overpressure; every test on nan is False
DamageLevel(tnt_equivalent, distance) ==
    IF tnt_equivalent.n <= 0 THEN "No significant damage"
    ELSE IF OverpressureExceeds(tnt_equivalent, distance, 200)
    THEN "Complete destruction"
    ELSE IF OverpressureExceeds(tnt_equivalent, distance, 100)
    THEN "Severe damage"
    ELSE IF OverpressureExceeds(tnt_equivalent, distance, 50)
    THEN "Moderate damage"
    ELSE IF OverpressureExceeds(tnt_equivalent, distance, 20)
    THEN "Light damage"
    ELSE "No significant damage"

\* a negative Python float to the power 1/3 is a complex number, and the
\* first test on it raises TypeError
ComplexOverpressure(tnt_equivalent) ==
    tnt_equivalent.n < 0 /\ ~tnt_equivalent.np

\* distance_km > 0
ImpactSimulationService_calculate_blast_effects(self, energy_joules, distance_km) ==
    The({IF ComplexOverpressure(tnt_equivalent) THEN Raise("TypeError")
         ELSE Ok([overpressure_kpa |-> Overpressure(tnt_equivalent, distance_km),
                  thermal_flux_cal_cm2 |->
                     Overpressure(tnt_equivalent, distance_km),
                  damage_level |-> DamageLevel(tnt_equivalent, distance_km),
                  distance_km |-> distance_km]) :
            tnt_equivalent \in {FDiv(energy_joules, F(4184, 1, 6))}})

\* the distances are > 0; the dictionary has a key for every distance
ImpactSimulation_calculate_blast_effects(self, energy_joules, distances) ==
    The({IF ComplexOverpressure(tnt_equivalent) /\ distances # <<>>
         THEN Raise("TypeError")
         ELSE Ok([distance \in {distances[i] : i \in DOMAIN distances} |->
                    [overpressure_kpa |-> Overpressure(tnt_equivalent, distance),
                     damage_level |-> DamageLevel(tnt_equivalent, distance),
                     distance_km |-> distance]]) :
            tnt_equivalent \in
               {ImpactSimulation_energy_to_tnt_equivalent(self, energy_joules)}})

\* the blast_effects loop of simulate_full_impact on the energy it computed
simulate_full_impact_blast_effects(self, energy) ==
    LET distances == {10, 50, 100, 500, 1000}
    IN  IF \E distance \in distances :
              ImpactSimulationService_calculate_blast_effects(
                 self, energy, distance).raised # None
        THEN Raise("TypeError")
        ELSE Ok([distance \in distances |->
                   ImpactSimulationService_calculate_blast_effects(
                      self, energy, distance).value])

\* the 'tnt_equivalent_megatons' of the /api/seismic/energy-to-magnitude reply
convert_energy_to_magnitude_tnt(energy_joules) ==
    FDiv(energy_joules, F(4184, 1, 12))

----------------------------------------------------------------------------
\* models/asteroid.py: a method gives the object after the call and its value

\* Asteroid(designation, diameter=..., mass=..., orbital_elements=...)
\* the orbital_elements __post_init__ gives when the caller gave None
DefaultOrbitalElements ==
    {<<"semi_major_axis", FZero>>, <<"eccentricity", FZero>>,
     <<"inclination", FZero>>, <<"longitude_of_ascending_node", FZero>>,
     <<"argument_of_perihelion", FZero>>, <<"mean_anomaly", FZero>>,
     <<"period", FZero>>}

\* the dataclass constructor and __post_init__; orbital_elements and
\* close_approach_data are optional values, NoObject being None
Asteroid_new(designation, name, diameter, mass, density, albedo, spectral_type, absolute_magnitude, velocity, orbital_elements, is_potentially_hazardous, minimum_orbit_intersection_distance, close_approach_data) ==
    [designation |-> designation, name |-> name, diameter |-> diameter,
     mass |-> mass, density |-> density, albedo |-> albedo,
     spectral_type |-> spectral_type,
     absolute_magnitude |-> absolute_magnitude, velocity |-> velocity,
     orbital_elements |->
        IF orbital_elements = NoObject THEN DefaultOrbitalElements
        ELSE The(orbital_elements),
     is_potentially_hazardous |-> is_potentially_hazardous,
     minimum_orbit_intersection_distance |->
        minimum_orbit_intersection_distance,
     close_approach_data |->
        IF close_approach_data = NoObject THEN <<>>
        ELSE The(close_approach_data)]

NewModelAsteroid(diameter, mass, semi_major_axis) ==
    Asteroid_new("custom", None, FInt(diameter), mass, FZero, FZero, "unknown",
                 FZero, FInt(30),
                 Some({<<"semi_major_axis", FInt(semi_major_axis)>>}),
                 FALSE, FZero, NoObject)

Asteroid_to_dict(self) ==
    [designation |-> self.designation,
     name |-> self.name,
     diameter_km |-> self.diameter,
     mass_kg |-> self.mass,
     density_kg_m3 |-> self.density,
     albedo |-> self.albedo,
     spectral_type |-> self.spectral_type,
     absolute_magnitude |-> self.absolute_magnitude,
     velocity_km_s |-> self.velocity,
     orbital_elements |-> self.orbital_elements,
     is_potentially_hazardous |-> self.is_potentially_hazardous,
     minimum_orbit_intersection_distance |->
        self.minimum_orbit_intersection_distance,
     close_approach_data |-> self.close_approach_data]

\* from_dict reading the keys 'diameter', 'mass', 'density' and 'velocity' only
Asteroid_from_dict_short_keys(data) ==
    Asteroid_new(Get(data, "designation", ""),
                 Get(data, "name", None),
                 Get(data, "diameter", FZero),
                 Get(data, "mass", FZero),
                 Get(data, "density", FZero),
                 Get(data, "albedo", FZero),
                 Get(data, "spectral_type", "unknown"),
                 Get(data, "absolute_magnitude", FZero),
                 Get(data, "velocity", FInt(30)),
                 Some(Get(data, "orbital_elements", {})),
                 Get(data, "is_potentially_hazardous", FALSE),
                 Get(data, "minimum_orbit_intersection_distance", FZero),
                 Some(Get(data, "close_approach_data", <<>>)))

Asteroid_from_dict(data) ==
    Asteroid_new(Get(data, "designation", ""),
                 Get(data, "name", None),
                 Get(data, "diameter_km", Get(data, "diameter", FZero)),
                 Get(data, "mass_kg", Get(data, "mass", FZero)),
                 Get(data, "density_kg_m3", Get(data, "density", FZero)),
                 Get(data, "albedo", FZero),
                 Get(data, "spectral_type", "unknown"),
                 Get(data, "absolute_magnitude", FZero),
                 Get(data, "velocity_km_s", Get(data, "velocity", FInt(30))),
                 Some(Get(data, "orbital_elements", {})),
                 Get(data, "is_potentially_hazardous", FALSE),
                 Get(data, "minimum_orbit_intersection_distance", FZero),
                 Some(Get(data, "close_approach_data", <<>>)))

Asteroid_semi_major_axis(self) ==
    IF \E p \in self.orbital_elements : p[1] = "semi_major_axis"
    THEN DictGet(self.orbital_elements, "semi_major_axis")
    ELSE FZero

Asteroid_calculate_mass_from_diameter(self, density) ==
    IF self.diameter.n <= 0
    THEN [self |-> self, value |-> FZero]
    ELSE LET radius_m == FDiv(FMul(self.diameter, FInt(1000)), FInt(2))
             volume == FMul(FMul(F(4, 3, 0), Pi),
                            FMul(FSquare(radius_m), radius_m))
             mass == FMul(FInt(density), volume)
         IN  [self |-> [self EXCEPT !.mass = mass, !.density = FInt(density)],
              value |-> mass]

Asteroid_calculate_orbital_velocity(self, distance_from_sun) ==
    IF Asteroid_semi_major_axis(self).n <= 0
    THEN [self |-> self, value |-> FZero]
    ELSE LET distance_m == FMul(FInt(distance_from_sun), F(1496, 1, 8))
             mu_sun == F(1327, 1, 17)
             velocity == MathSqrt(FDiv(mu_sun, distance_m))
         IN  [self |-> self, value |-> FDiv(velocity, FInt(1000))]

Asteroid_get_impact_velocity_at_earth(self) ==
    LET earth_velocity == F(298, 10, 0)
        asteroid_velocity == Asteroid_calculate_orbital_velocity(self, 1).value
        impact_velocity ==
            MathSqrt(FAdd(FAdd(FSquare(asteroid_velocity), FSquare(earth_velocity)),
                          FSquare(F(112, 10, 0))))
    IN  [self |-> self, value |-> impact_velocity]

Asteroid_calculate_kinetic_energy_at_impact(self) ==
    LET impact_velocity == Asteroid_get_impact_velocity_at_earth(self).value
        kinetic_energy ==
            FMul(FMul(F(1, 2, 0), self.mass),
                 FSquare(FMul(impact_velocity, FInt(1000))))
    IN  [self |-> self, value |-> kinetic_energy]

\* get_orbital_period keeping the period it computed in orbital_elements
Asteroid_get_orbital_period_cached(self) ==
    LET a == Asteroid_semi_major_axis(self)
        period == IF a.n <= 0 THEN FZero
                  ELSE FMul(MathSqrt(FMul(FSquare(a), a)), F(36525, 100, 0))
    IN  [self |-> [self EXCEPT !.orbital_elements = @ \cup {<<"period", period>>}],
         value |-> period]

Asteroid_get_orbital_period(self) ==
    LET a == Asteroid_semi_major_axis(self)
    IN  IF a.n <= 0
        THEN [self |-> self, value |-> FZero]
        ELSE LET G == FMul(FInt(4), FSquare(Pi))
                 M_sun == FInt(1)
                 period_squared ==
                    FDiv(FMul(FMul(FInt(4), FSquare(Pi)), FMul(FSquare(a), a)),
                         FMul(G, M_sun))
                 period_years == MathSqrt(period_squared)
             IN  [self |-> self, value |-> FMul(period_years, F(36525, 100, 0))]

----------------------------------------------------------------------------
\* utils/data_processing.py

ASTEROID_DENSITY == 3000

\* the errors list with the messages of the failed checks, in order
validate_input_parameters(params_dict) ==
    LET diameter == Get(params_dict, "diameter", 0)
        velocity == Get(params_dict, "velocity", 0)
        impact_angle == Get(params_dict, "impact_angle", 45)
        density == Get(params_dict, "density", ASTEROID_DENSITY)
        e1 == IF diameter < 0 THEN <<"Diameter must be positive">>
              ELSE IF diameter > 1000 THEN <<"Diameter too large (max 1000 km)">>
              ELSE <<>>
        e2 == IF velocity < 0 THEN <<"Velocity must be positive">>
              ELSE IF velocity > 100 THEN <<"Velocity too high (max 100 km/s)">>
              ELSE <<>>
        e3 == IF impact_angle < 0 \/ impact_angle > 90
              THEN <<"Impact angle must be between 0 and 90 degrees">>
              ELSE <<>>
        e4 == IF density < 1000 \/ density > 8000
              THEN <<"Density must be between 1000 and 8000 kg/m3">>
              ELSE <<>>
        orbital_elements == Get(params_dict, "orbital_elements", <<>>)
        \* orbital element values are in tenths (0.1 AU, 0.1, 0.1 degree)
        semi_major_axis == Get(orbital_elements, "semi_major_axis", 10)
        eccentricity == Get(orbital_elements, "eccentricity", 0)
        inclination == Get(orbital_elements, "inclination", 0)
        e5 == IF DOMAIN orbital_elements # {}
              THEN (IF semi_major_axis < 1 \/ semi_major_axis > 1000
                    THEN <<"Semi-major axis must be between 0.1 and 100 AU">>
                    ELSE <<>>)
                   \o (IF eccentricity < 0 \/ eccentricity >= 10
                       THEN <<"Eccentricity must be between 0 and 1">>
                       ELSE <<>>)
                   \o (IF inclination < 0 \/ inclination > 1800
                       THEN <<"Inclination must be between 0 and 180 degrees">>
                       ELSE <<>>)
              ELSE <<>>
        errors == e1 \o e2 \o e3 \o e4 \o e5
    IN  [is_valid |-> errors = <<>>, errors |-> errors]

----------------------------------------------------------------------------
\* calculations/orbital_mechanics.py.  Lengths are counted in quarters of
\* EARTH_RADIUS; the arithmetic of the two functions is the same in any unit.

\* earth_radius=EARTH_RADIUS, in quarters of EARTH_RADIUS
EarthRadiusQuarters == 4

Dot(u, v) == u[1] * v[1] + u[2] * v[2] + u[3] * v[3]

\* the point p1 + t * d with t = (minus_b + sign * sqrt(discriminant)) / two_a
PointAt(p1, d, minus_b, sign, discriminant, two_a) ==
    [p1 |-> p1, d |-> d,
     t |-> [minus_b |-> minus_b, sign |-> sign, discriminant |-> discriminant,
            two_a |-> two_a]]

\* whether the point is (0, 0, 0): t * d = -p1
IsOrigin(point) ==
    LET pd == Dot(point.p1, point.d)
        a == Dot(point.d, point.d)
    IN  /\ \A k \in 1..3 : a * point.p1[k] = pd * point.d[k]
        /\ point.t.discriminant = 16 * pd * pd
        /\ \/ pd = 0
           \/ pd > 0 /\ point.t.sign = -1
           \/ pd < 0 /\ point.t.sign = 1

\* the tuple (x, y, z) or None; 2*a = 0 divides by zero
line_sphere_intersection(p1, p2, center, radius) ==
    LET d == <<p2[1] - p1[1], p2[2] - p1[2], p2[3] - p1[3]>>
        cv == <<center[1] - p1[1], center[2] - p1[2], center[3] - p1[3]>>
        a == Dot(d, d)
        b == 2 * Dot(cv, d)
        c == Dot(cv, cv) - radius * radius
        discriminant == b * b - 4 * a * c
        \* t1 = (-b + sqrt(discriminant)) / (2*a) >= t2 = (-b - sqrt(...)) / (2*a)
        min_positive == b < 0 /\ b * b > discriminant
        \* 0 <= t2 <= 1, given t2 > 0
        t2_in_segment ==
            \/ -b - 2 * a <= 0
            \/ discriminant >= (b + 2 * a) * (b + 2 * a)
        \* 0 <= t1 <= 1
        t1_in_segment ==
            /\ b <= 0 \/ discriminant >= b * b
            /\ 2 * a + b >= 0
            /\ discriminant <= (2 * a + b) * (2 * a + b)
    IN  IF discriminant < 0 THEN Ok(NoObject)
        ELSE IF a = 0 THEN Raise("ZeroDivisionError")
        ELSE IF min_positive
             THEN (IF t2_in_segment
                   THEN Ok(Some(PointAt(p1, d, -b, -1, discriminant, 2 * a)))
                   ELSE Ok(NoObject))
             ELSE (IF t1_in_segment
                   THEN Ok(Some(PointAt(p1, d, -b, 1, discriminant, 2 * a)))
                   ELSE Ok(NoObject))

\* lat = degrees(asin(z / r)), lon = degrees(atan2(y, x)); r = 0 divides by zero
cartesian_to_latlon(point) ==
    IF IsOrigin(point) THEN Raise("ZeroDivisionError")
    ELSE Ok([lat |-> <<"asin(z / r)", point>>, lon |-> <<"atan2(y, x)", point>>])

RECURSIVE EarthIntersectionFrom(_, _, _)
\* the loop of calculate_earth_intersection from index i on
EarthIntersectionFrom(trajectory, i, earth_radius) ==
    IF i > Len(trajectory) - 1 THEN Ok(NoObject)
    ELSE The({IF intersection.raised # None THEN intersection
              ELSE IF intersection.value = NoObject
              THEN EarthIntersectionFrom(trajectory, i + 1, earth_radius)
              ELSE The({IF latlon.raised # None THEN latlon
                        ELSE Ok(Some([impact_point |-> latlon.value,
                                      cartesian_position |->
                                         The(intersection.value),
                                      time_index |-> i - 1])) :
                          latlon \in
                             {cartesian_to_latlon(The(intersection.value))}}) :
                intersection \in
                   {line_sphere_intersection(trajectory[i], trajectory[i + 1],
                                             <<0, 0, 0>>, earth_radius)}})

calculate_earth_intersection(trajectory, earth_radius) ==
    EarthIntersectionFrom(trajectory, 1, earth_radius)

----------------------------------------------------------------------------
\* The calculator objects and the calls made on them

calcVars == <<mitigation_service, usgs_service, impact_service,
              impact_simulation, model_asteroid, asteroid_constructed, call, out>>

\* the fields of every calculator object
objects == <<mitigation_service, usgs_service, impact_service,
             impact_simulation, model_asteroid>>

\* USGSSeismicService.__init__
NewUSGSSeismicService == [base_url |-> "https://earthquake.usgs.gov/fdsnws/event/1"]

\* NASADataService.__init__
NewNASADataService ==
    [api_key |-> "GjBmdPeD3TleYlhrDHHd6tdDYvniKjui2iQaLfbn",
     base_url |-> "https://ssd-api.jpl.nasa.gov",
     usgs_base_url |-> "https://earthquake.usgs.gov/fdsnws/event/1"]

\* ImpactSimulationService.__init__
NewImpactSimulationService(nasa, usgs) ==
    [nasa_service |-> nasa, usgs_service |-> usgs]

\* an ImpactSimulation record before any result is filled in
NewImpactSimulation ==
    [kinetic_energy |-> FZero, tnt_equivalent |-> FZero,
     equivalent_magnitude |-> FZero, crater_diameter |-> FZero,
     crater_depth |-> FZero, crater_volume |-> FZero]

\* input sets of the calls
AsteroidMasses == {0, 1000}
SpacecraftMasses == {500}
ApproachVelocities == {66}
DeflectionTimes == {-10, 0, 1, 10}
ImpactVelocities == {0, 30}
HoverDistances == {0, 100}
IonThrusts == {5}
NuclearYields == {1}
EnergyMasses == {FInt(1000), F(1, 1, 12)}
EnergyVelocities == {15, 20}
Angles == {0, 30, 45, 90}
Energies == {FZero, FInt(1), F(4184, 1, 12), F(5, 1, 14), F(1, 1, 22)}
\* <<diameter, semi_major_axis>> of the Asteroid that is constructed
ModelAsteroids == {<<0, 0>>, <<1, 1>>, <<1, 0>>}
ModelDensities == {2000, 3000}
SunDistances == {1, 2}
PctMasses == {Rat(1, 10), Rat(10000, 1), Rat(1000000, 1), Rat(2000000, 1)}
PctForces == {Rat(0, 1), Rat(1, 2), Rat(1, 1)}

NoCall == [op |-> "none", args |-> <<>>]
NoOut == [propagated |-> None, caught |-> None, value |-> None]
Returned(v) == [propagated |-> None, caught |-> None, value |-> v]

CalcInit ==
    /\ mitigation_service = NewMitigationSystem
    /\ usgs_service = NewUSGSSeismicService
    /\ impact_service =
          NewImpactSimulationService(NewNASADataService, NewUSGSSeismicService)
    /\ impact_simulation = NewImpactSimulation
    /\ \E a \in ModelAsteroids :
          model_asteroid = NewModelAsteroid(a[1], F(1, 1, 12), a[2])
    /\ asteroid_constructed = model_asteroid
    /\ call = NoCall
    /\ out = NoOut

\* the calculator objects while another component runs
CalcIdle ==
    /\ mitigation_service = NewMitigationSystem
    /\ usgs_service = NewUSGSSeismicService
    /\ impact_service =
          NewImpactSimulationService(NewNASADataService, NewUSGSSeismicService)
    /\ impact_simulation = NewImpactSimulation
    /\ model_asteroid = NewModelAsteroid(1, FZero, 1)
    /\ asteroid_constructed = model_asteroid
    /\ call = NoCall
    /\ out = NoOut

\* a call on an object that the method leaves as it was; the caller makes it
\* once the call before has returned
PureCall(op, args, result) ==
    /\ call = NoCall
    /\ call' = [op |-> op, args |-> args]
    /\ out' = result
    /\ UNCHANGED <<objects, asteroid_constructed>>

KineticOp == "MitigationSystem.calculate_kinetic_impactor_deflection"
GravityOp == "MitigationSystem.calculate_gravity_tractor_deflection"
IonOp == "MitigationSystem.calculate_ion_beam_deflection"
NuclearOp == "MitigationSystem.calculate_nuclear_deflection"
DeflectionOps == {KineticOp, GravityOp, IonOp, NuclearOp}

CallKineticImpactorDeflection ==
    \E am \in AsteroidMasses, sm \in SpacecraftMasses, av \in ApproachVelocities,
       t \in DeflectionTimes, iv \in ImpactVelocities :
       PureCall(KineticOp, <<am, sm, av, t, iv>>,
                MitigationSystem_calculate_kinetic_impactor_deflection(
                    mitigation_service, am, sm, av, t, iv))

CallGravityTractorDeflection ==
    \E am \in AsteroidMasses, sm \in SpacecraftMasses, hd \in HoverDistances,
       t \in DeflectionTimes, iv \in ImpactVelocities :
       PureCall(GravityOp, <<am, sm, hd, t, iv>>,
                MitigationSystem_calculate_gravity_tractor_deflection(
                    mitigation_service, am, sm, hd, t, iv))

CallIonBeamDeflection ==
    \E am \in AsteroidMasses, th \in IonThrusts,
       t \in DeflectionTimes, iv \in ImpactVelocities :
       PureCall(IonOp, <<am, th, t, iv>>,
                MitigationSystem_calculate_ion_beam_deflection(
                    mitigation_service, am, th, t, iv))

CallNuclearDeflection ==
    \E am \in AsteroidMasses, ny \in NuclearYields,
       t \in DeflectionTimes, iv \in ImpactVelocities :
       PureCall(NuclearOp, <<am, ny, 100, t, iv>>,
                MitigationSystem_calculate_nuclear_deflection(
                    mitigation_service, am, ny, 100, t, iv))

EnergyFnOp == "calculate_kinetic_energy"
EnergyServiceOp == "ImpactSimulationService.calculate_impact_energy"
EnergyModelOp == "ImpactSimulation.calculate_impact_energy"
EnergyOps == {EnergyFnOp, EnergyServiceOp, EnergyModelOp}

\* every call has the scenario <<mass, velocity, angle>> as its args;
\* calculate_kinetic_energy is given the mass and the velocity only
CallCalculateKineticEnergy ==
    \E m \in EnergyMasses, v \in EnergyVelocities, angle \in Angles :
       PureCall(EnergyFnOp, <<m, v, angle>>,
                Returned(calculate_kinetic_energy(m, FInt(v))))

CallServiceImpactEnergy ==
    \E m \in EnergyMasses, v \in EnergyVelocities, angle \in Angles :
       PureCall(EnergyServiceOp, <<m, v, angle>>,
                Returned(ImpactSimulationService_calculate_impact_energy(
                            impact_service, [mass |-> m], FInt(v), angle)))

CallModelImpactEnergy ==
    \E m \in EnergyMasses, v \in EnergyVelocities, angle \in Angles :
       PureCall(EnergyModelOp, <<m, v, angle>>,
                Returned(ImpactSimulation_calculate_impact_energy(
                            impact_simulation, m, FInt(v), angle)))

TntModelOp == "ImpactSimulation.energy_to_tnt_equivalent"
TntServiceOp == "ImpactSimulationService.calculate_crater_dimensions"
TntRouteOp == "/api/seismic/energy-to-magnitude"
TntOps == {TntModelOp, TntServiceOp, TntRouteOp}

CallEnergyToTnt ==
    \E E \in Energies :
       PureCall(TntModelOp, <<E>>,
                Returned(ImpactSimulation_energy_to_tnt_equivalent(
                            impact_simulation, E)))

CallServiceCraterDimensions ==
    \E E \in Energies :
       PureCall(TntServiceOp, <<E>>,
                Returned(ImpactSimulationService_calculate_crater_dimensions(
                            impact_service, E)))

CallRouteTnt ==
    \E E \in Energies :
       PureCall(TntRouteOp, <<E>>,
                Returned([energy_joules |-> E,
                          equivalent_magnitude |->
                             USGSSeismicService_get_equivalent_magnitude(
                                usgs_service, E),
                          tnt_equivalent_megatons |->
                             convert_energy_to_magnitude_tnt(E)]))

CallModelCraterDimensions ==
    \E E \in Energies :
       PureCall("ImpactSimulation.calculate_crater_dimensions", <<E>>,
                Returned(ImpactSimulation_calculate_crater_dimensions(
                            impact_simulation, E)))

CallEnergyToMagnitude ==
    \E E \in Energies :
       \/ PureCall("ImpactSimulation.energy_to_magnitude", <<E>>,
                   Returned(ImpactSimulation_energy_to_magnitude(
                               impact_simulation, E)))
       \/ PureCall("USGSSeismicService.get_equivalent_magnitude", <<E>>,
                   Returned(USGSSeismicService_get_equivalent_magnitude(
                               usgs_service, E)))

MassFromDiameterOp == "Asteroid.calculate_mass_from_diameter"
OrbitalVelocityOp == "Asteroid.calculate_orbital_velocity"
ImpactVelocityOp == "Asteroid.get_impact_velocity_at_earth"
KineticEnergyAtImpactOp == "Asteroid.calculate_kinetic_energy_at_impact"
OrbitalPeriodOp == "Asteroid.get_orbital_period"
AsteroidOps == {MassFromDiameterOp, OrbitalVelocityOp, ImpactVelocityOp,
                KineticEnergyAtImpactOp, OrbitalPeriodOp}

\* the method op of the Asteroid self, called with args
AsteroidMethod(self, op, args) ==
    CASE op = MassFromDiameterOp ->
            Asteroid_calculate_mass_from_diameter(self, args[1])
      [] op = OrbitalVelocityOp ->
            Asteroid_calculate_orbital_velocity(self, args[1])
      [] op = ImpactVelocityOp -> Asteroid_get_impact_velocity_at_earth(self)
      [] op = KineticEnergyAtImpactOp ->
            Asteroid_calculate_kinetic_energy_at_impact(self)
      [] op = OrbitalPeriodOp -> Asteroid_get_orbital_period(self)

\* a call of a method on model_asteroid: the object becomes what the method
\* left of it
AsteroidCall(op, args) ==
    /\ call = NoCall
    /\ \E r \in {AsteroidMethod(model_asteroid, op, args)} :
          /\ call' = [op |-> op, args |-> args]
          /\ out' = Returned(r.value)
          /\ model_asteroid' = r.self
    /\ UNCHANGED <<mitigation_service, usgs_service, impact_service,
                   impact_simulation, asteroid_constructed>>

CallMassFromDiameter ==
    \E density \in ModelDensities : AsteroidCall(MassFromDiameterOp, <<density>>)
CallOrbitalVelocity ==
    \E distance \in SunDistances : AsteroidCall(OrbitalVelocityOp, <<distance>>)
CallImpactVelocityAtEarth == AsteroidCall(ImpactVelocityOp, <<>>)
CallKineticEnergyAtImpact == AsteroidCall(KineticEnergyAtImpactOp, <<>>)
CallOrbitalPeriod == AsteroidCall(OrbitalPeriodOp, <<>>)

ValidateOp == "validate_input_parameters"
ParamKeys == {"diameter", "velocity", "impact_angle", "density"}
ParamKeySets == {ParamKeys, ParamKeys \ {"velocity"}, {"velocity"}}
ParamValues(key) ==
    CASE key = "diameter" -> {-100, 100}
      [] key = "velocity" -> {-5, 0, 15, 150}
      [] key = "impact_angle" -> {95}
      [] key = "density" -> {3000}
\* an absent orbital_elements, an empty one, and a filled one
OrbitalElementsValues ==
    {{}, {<<>>}, {[semi_major_axis |-> 0, inclination |-> 300]}}

CallValidateInputParameters ==
    \E keys \in ParamKeySets,
       diameter \in ParamValues("diameter"), velocity \in ParamValues("velocity"),
       impact_angle \in ParamValues("impact_angle"),
       density \in ParamValues("density"), oe \in OrbitalElementsValues :
       LET all == [diameter |-> diameter, velocity |-> velocity,
                   impact_angle |-> impact_angle, density |-> density]
           scalars == [k \in keys |-> all[k]]
           params_dict == IF oe = {} THEN scalars
                          ELSE scalars @@ ("orbital_elements" :> The(oe))
       IN  PureCall(ValidateOp, <<params_dict>>,
                    Returned(validate_input_parameters(params_dict)))

PctKineticOp == "calculate_kinetic_impactor_deflection"
PctGravityOp == "calculate_gravity_tractor_deflection"
PctLaserOp == "calculate_laser_ablation_deflection"
PctOps == {PctKineticOp, PctGravityOp, PctLaserOp}

CallDeflectionPercentage ==
    \E asteroid_mass \in PctMasses, deflection_force \in PctForces :
       \/ PureCall(PctKineticOp, <<asteroid_mass, deflection_force>>,
                   Returned(calculate_kinetic_impactor_deflection(
                               asteroid_mass, deflection_force)))
       \/ PureCall(PctGravityOp, <<asteroid_mass, deflection_force>>,
                   Returned(calculate_gravity_tractor_deflection(
                               asteroid_mass, deflection_force)))
       \/ PureCall(PctLaserOp, <<asteroid_mass, deflection_force>>,
                   Returned(calculate_laser_ablation_deflection(
                               asteroid_mass, deflection_force)))

RoundTripOp == "Asteroid.from_dict(a.to_dict())"

\* the Asteroids serialized: model_asteroid as the calls before left it, and
\* Asteroids constructed with and without the optional arguments
SerializedNames == {None, "Apophis"}
SerializedOrbitalElements ==
    {NoObject, Some({}), Some({<<"semi_major_axis", FInt(1)>>})}
SerializedCloseApproaches == {NoObject, Some(<<[date |-> "2029-04-13"]>>)}

\* args is the Asteroid a, the value Asteroid.from_dict(a.to_dict())
CallRoundTrip ==
    \/ PureCall(RoundTripOp, <<model_asteroid>>,
                Returned(Asteroid_from_dict(Asteroid_to_dict(model_asteroid))))
    \/ \E name \in SerializedNames, oe \in SerializedOrbitalElements,
          cad \in SerializedCloseApproaches, hazardous \in BOOLEAN :
          \E a \in {Asteroid_new("99942", name, F(37, 100, 0), F(61, 1, 9),
                                 FInt(3200), F(23, 100, 0), "Sq", F(197, 10, 0),
                                 F(126, 10, 0), oe, hazardous,
                                 F(2, 10000, 0), cad)} :
             PureCall(RoundTripOp, <<a>>,
                      Returned(Asteroid_from_dict(Asteroid_to_dict(a))))

EarthIntersectionOp == "calculate_earth_intersection"

\* the points of the trajectories, in quarters of EARTH_RADIUS: on a line
\* through the centre, on a chord and on a line that misses the sphere
TrajectoryPoints ==
    {<<13, 0, 0>>, <<8, 0, 0>>, <<3, 0, 0>>, <<0, 0, 0>>, <<-3, 0, 0>>,
     <<-8, 0, 0>>, <<8, 3, 0>>, <<-8, 3, 0>>, <<8, 5, 0>>, <<-8, 5, 0>>}

\* a function that raises: the exception reaches the caller
Called(r) ==
    IF r.raised # None
    THEN [propagated |-> r.raised, caught |-> None, value |-> None]
    ELSE Returned(r.value)

CallCalculateEarthIntersection ==
    \E p1 \in TrajectoryPoints, p2 \in TrajectoryPoints :
       \E trajectory \in {<<p1, p2>>} \cup
                          {<<p1, p2, p3>> : p3 \in {<<0, 0, 0>>, <<-8, 0, 0>>}} :
          PureCall(EarthIntersectionOp, <<trajectory>>,
                   Called(calculate_earth_intersection(trajectory,
                                                       EarthRadiusQuarters)))

BlastServiceOp == "ImpactSimulationService.calculate_blast_effects"
BlastModelOp == "ImpactSimulation.calculate_blast_effects"
BlastFullImpactOp == "ImpactSimulationService.simulate_full_impact.blast_effects"

\* energies in joules, as Python floats and as numpy floats
BlastEnergies ==
    Energies \cup {F(4184, 1, 14), F(-1, 1, 20)}
    \cup {Mk("fin", 1, 1, 22, TRUE), Mk("fin", -1, 1, 20, TRUE)}
BlastDistances == {10, 50, 100, 500, 1000}
BlastDistanceLists == {<<10, 50, 100, 500, 1000>>, <<1000, 1>>, <<>>}

CallServiceBlastEffects ==
    \E E \in BlastEnergies, distance_km \in BlastDistances :
       PureCall(BlastServiceOp, <<E, distance_km>>,
                Called(ImpactSimulationService_calculate_blast_effects(
                          impact_service, E, distance_km)))

CallModelBlastEffects ==
    \E E \in BlastEnergies, distances \in BlastDistanceLists :
       PureCall(BlastModelOp, <<E, distances>>,
                Called(ImpactSimulation_calculate_blast_effects(
                          impact_simulation, E, distances)))

CallFullImpactBlastEffects ==
    \E E \in BlastEnergies :
       PureCall(BlastFullImpactOp, <<E>>,
                Called(simulate_full_impact_blast_effects(impact_service, E)))

\* the caller takes the result: the next call can be made
Return ==
    /\ call # NoCall
    /\ call' = NoCall
    /\ out' = NoOut
    /\ UNCHANGED <<objects, asteroid_constructed>>

NextCalc ==
    \/ Return
    \/ CallServiceBlastEffects
    \/ CallModelBlastEffects
    \/ CallFullImpactBlastEffects
    \/ CallKineticImpactorDeflection
    \/ CallGravityTractorDeflection
    \/ CallIonBeamDeflection
    \/ CallNuclearDeflection
    \/ CallCalculateKineticEnergy
    \/ CallServiceImpactEnergy
    \/ CallModelImpactEnergy
    \/ CallEnergyToTnt
    \/ CallServiceCraterDimensions
    \/ CallRouteTnt
    \/ CallModelCraterDimensions
    \/ CallEnergyToMagnitude
    \/ CallMassFromDiameter
    \/ CallOrbitalVelocity
    \/ CallImpactVelocityAtEarth
    \/ CallKineticEnergyAtImpact
    \/ CallOrbitalPeriod
    \/ CallValidateInputParameters
    \/ CallDeflectionPercentage
    \/ CallCalculateEarthIntersection
    \/ CallRoundTrip

----------------------------------------------------------------------------
\* src/backend/api/routes.py and src/app.py: the POST handlers

apiVars == <<request, response, calculations>>

ImpactRoute == "/api/simulation/impact"
CustomAsteroidRoute == "/api/simulation/custom-asteroid"
StrategiesRoute == "/api/mitigation/strategies"
MitigationRoute == "/api/mitigation/simulate"
MagnitudeRoute == "/api/seismic/energy-to-magnitude"
AppImpactRoute == "/api/simulate/impact"
ApiBlueprintRoutes == {ImpactRoute, CustomAsteroidRoute, StrategiesRoute,
                       MitigationRoute, MagnitudeRoute}

\* a body that is a JSON object, and one that is not JSON at all
JsonObject(data) == [json |-> TRUE, data |-> data]
InvalidJson == [json |-> FALSE, data |-> <<>>]

\* request.get_json(): the parsed body; a body that does not parse raises
\* (BadRequest, an Exception)
get_json(body) == IF body.json THEN Ok(body.data) ELSE Raise("BadRequest")

\* required_fields of each handler; convert_energy_to_magnitude tests
\* 'energy_joules' not in data
RequiredFields(route) ==
    CASE route = ImpactRoute ->
            <<"asteroid", "impact_velocity", "impact_angle", "impact_location">>
      [] route = CustomAsteroidRoute ->
            <<"diameter_km", "density_kg_m3", "velocity_km_s">>
      [] route = StrategiesRoute ->
            <<"asteroid_mass_kg", "asteroid_diameter_km", "deflection_time_years">>
      [] route = MitigationRoute ->
            <<"strategy_type", "asteroid_mass_kg", "deflection_time_years">>
      [] route = MagnitudeRoute -> <<"energy_joules">>

\* the loop reporting the last of the missing fields
LastMissing(required_fields, data) ==
    LET missing == {i \in 1..Len(required_fields) :
                       required_fields[i] \notin DOMAIN data}
    IN  IF missing = {} THEN None
        ELSE required_fields[CHOOSE i \in missing : \A j \in missing : i >= j]

\* for field in required_fields: if field not in data: the first such field
FirstMissing(required_fields, data) ==
    LET missing == {i \in 1..Len(required_fields) :
                       required_fields[i] \notin DOMAIN data}
    IN  IF missing = {} THEN None
        ELSE required_fields[CHOOSE i \in missing : \A j \in missing : i <= j]

NoError == [msg |-> "", field |-> ""]
MissingField(field) == [msg |-> "Missing required field", field |-> field]

\* no request is being handled
NoRequest == [route |-> "", body |-> JsonObject(<<>>)]
NoResponse == [status |-> 0, success |-> FALSE, error |-> NoError]

\* the handler answers request with jsonify(...), status
Respond(route, body, status, success, error, ran) ==
    /\ request = NoRequest
    /\ request' = [route |-> route, body |-> body]
    /\ response' = [status |-> status, success |-> success, error |-> error]
    /\ calculations' = ran

\* except Exception as e: 'success': False, 'error': str(e), 500
Respond500(route, body, exc, ran) ==
    Respond(route, body, 500, FALSE, [msg |-> exc, field |-> ""], ran)

simulate_impact(body) ==
    LET data == get_json(body)
        required_fields == RequiredFields(ImpactRoute)
    IN  IF data.raised # None
        THEN Respond500(ImpactRoute, body, data.raised, <<>>)
        ELSE LET missing == FirstMissing(required_fields, data.value)
             IN  IF missing # None
                 THEN Respond(ImpactRoute, body, 400, FALSE,
                              MissingField(missing), <<>>)
                 ELSE IF data.value["asteroid"].type # "object"
                 THEN Respond500(ImpactRoute, body, "AttributeError", <<>>)
                 ELSE Respond(ImpactRoute, body, 200, TRUE, NoError,
                              <<"ImpactSimulationService.simulate_full_impact">>)

create_custom_asteroid(body) ==
    LET data == get_json(body)
        required_fields == RequiredFields(CustomAsteroidRoute)
    IN  IF data.raised # None
        THEN Respond500(CustomAsteroidRoute, body, data.raised, <<>>)
        ELSE LET missing == FirstMissing(required_fields, data.value)
             IN  IF missing # None
                 THEN Respond(CustomAsteroidRoute, body, 400, FALSE,
                              MissingField(missing), <<>>)
                 ELSE Respond(CustomAsteroidRoute, body, 200, TRUE, NoError,
                              <<"volume * density">>)

\* whether json.dumps takes the DeflectionResult: it refuses a complex
\* mission_cost and the numpy.bool_ that comparing a numpy.float64 gives
Serializable(result0) ==
    The({/\ result.mission_cost.k # "complex"
         /\ ~result.deflection_distance.np : result \in {result0}})

\* MitigationSystem.get_recommended_mitigation_strategy: the strategies it
\* calculates, each as <<name, DeflectionResult>>, in order
get_recommended_mitigation_strategy(self, asteroid_mass, asteroid_diameter, deflection_time, impact_velocity) ==
    (IF deflection_time > 2
     THEN <<<<KineticOp, MitigationSystem_calculate_kinetic_impactor_deflection(
                 self, asteroid_mass, 1000, 66, deflection_time,
                 impact_velocity).value>>>>
     ELSE <<>>)
    \o (IF deflection_time > 10 /\ 2 * asteroid_diameter < 1
        THEN <<<<GravityOp, MitigationSystem_calculate_gravity_tractor_deflection(
                    self, asteroid_mass, 2000, 100, deflection_time,
                    impact_velocity).value>>>>
        ELSE <<>>)
    \o (IF deflection_time > 5
        THEN <<<<IonOp, MitigationSystem_calculate_ion_beam_deflection(
                    self, asteroid_mass, 5, deflection_time,
                    impact_velocity).value>>>>
        ELSE <<>>)
    \o (IF deflection_time < 5 \/ asteroid_diameter > 1
        THEN <<<<NuclearOp, MitigationSystem_calculate_nuclear_deflection(
                    self, asteroid_mass, 1, 100, deflection_time,
                    impact_velocity).value>>>>
        ELSE <<>>)

get_mitigation_strategies(body) ==
    LET data == get_json(body)
        required_fields == RequiredFields(StrategiesRoute)
    IN  IF data.raised # None
        THEN Respond500(StrategiesRoute, body, data.raised, <<>>)
        ELSE LET missing == FirstMissing(required_fields, data.value)
             IN  IF missing # None
                 THEN Respond(StrategiesRoute, body, 400, FALSE,
                              MissingField(missing), <<>>)
                 ELSE \E strategies \in
                             {get_recommended_mitigation_strategy(
                                mitigation_service,
                                data.value["asteroid_mass_kg"],
                                data.value["asteroid_diameter_km"],
                                data.value["deflection_time_years"],
                                Get(data.value, "impact_velocity_km_s", 30))} :
                      LET ran == [i \in 1..Len(strategies) |-> strategies[i][1]]
                      IN  IF \A i \in 1..Len(strategies) :
                                Serializable(strategies[i][2])
                          THEN Respond(StrategiesRoute, body, 200, TRUE,
                                       NoError, ran)
                          ELSE Respond500(StrategiesRoute, body, "TypeError", ran)

StrategyTypes == {"kinetic_impactor", "gravity_tractor", "ion_beam", "nuclear"}

simulate_mitigation(body) ==
    LET data == get_json(body)
        required_fields == RequiredFields(MitigationRoute)
    IN  IF data.raised # None
        THEN Respond500(MitigationRoute, body, data.raised, <<>>)
        ELSE LET missing == FirstMissing(required_fields, data.value)
             IN  IF missing # None
                 THEN Respond(MitigationRoute, body, 400, FALSE,
                              MissingField(missing), <<>>)
                 ELSE LET strategy_type == data.value["strategy_type"]
                          asteroid_mass == data.value["asteroid_mass_kg"]
                          deflection_time == data.value["deflection_time_years"]
                          impact_velocity ==
                             Get(data.value, "impact_velocity_km_s", 30)
                          result ==
                             CASE strategy_type = "kinetic_impactor" ->
                                    MitigationSystem_calculate_kinetic_impactor_deflection(
                                       mitigation_service, asteroid_mass,
                                       Get(data.value, "spacecraft_mass_kg", 1000),
                                       Get(data.value, "approach_velocity_km_s", 66),
                                       deflection_time, impact_velocity).value
                               [] strategy_type = "gravity_tractor" ->
                                    MitigationSystem_calculate_gravity_tractor_deflection(
                                       mitigation_service, asteroid_mass,
                                       Get(data.value, "spacecraft_mass_kg", 2000),
                                       Get(data.value, "hover_distance_m", 100),
                                       deflection_time, impact_velocity).value
                               [] strategy_type = "ion_beam" ->
                                    MitigationSystem_calculate_ion_beam_deflection(
                                       mitigation_service, asteroid_mass,
                                       Get(data.value, "ion_beam_thrust_n", 5),
                                       deflection_time, impact_velocity).value
                               [] strategy_type = "nuclear" ->
                                    MitigationSystem_calculate_nuclear_deflection(
                                       mitigation_service, asteroid_mass,
                                       Get(data.value, "nuclear_yield_megatons", 1),
                                       Get(data.value, "detonation_distance_m", 100),
                                       deflection_time, impact_velocity).value
                      IN  IF strategy_type \notin StrategyTypes
                          THEN Respond(MitigationRoute, body, 400, FALSE,
                                       [msg |-> "Unknown strategy type",
                                        field |-> strategy_type], <<>>)
                          ELSE \E returned \in {result} :
                               IF Serializable(returned)
                               THEN Respond(MitigationRoute, body, 200, TRUE,
                                            NoError, <<strategy_type>>)
                               ELSE Respond500(MitigationRoute, body, "TypeError",
                                               <<strategy_type>>)

convert_energy_to_magnitude(body) ==
    LET data == get_json(body)
    IN  IF data.raised # None
        THEN Respond500(MagnitudeRoute, body, data.raised, <<>>)
        ELSE IF "energy_joules" \notin DOMAIN data.value
        THEN Respond(MagnitudeRoute, body, 400, FALSE,
                     [msg |-> "Missing energy_joules parameter",
                      field |-> "energy_joules"], <<>>)
        ELSE Respond(MagnitudeRoute, body, 200, TRUE, NoError,
                     <<"USGSSeismicService.get_equivalent_magnitude">>)

\* src/app.py: the handler does not read the request
app_simulate_impact(body) ==
    /\ request = NoRequest
    /\ request' = [route |-> AppImpactRoute, body |-> body]
    /\ response' = [status |-> 200, impact_energy |-> "1.2e15 J",
                    crater_diameter |-> "2.5 km",
                    tnt_equivalent |-> "0.3 megatons"]
    /\ calculations' = <<>>

\* the JSON objects posted: every subset of the fields, with these values
AsteroidValues == {[type |-> "object", mass_kg |-> 1000], [type |-> "string"]}
ImpactFields == {"asteroid", "impact_velocity", "impact_angle", "impact_location"}
CustomAsteroidFields == {"diameter_km", "density_kg_m3", "velocity_km_s"}
StrategiesFields == {"asteroid_mass_kg", "asteroid_diameter_km",
                     "deflection_time_years"}
MitigationFields == {"strategy_type", "asteroid_mass_kg", "deflection_time_years"}
MagnitudeFields == {"energy_joules", "comment"}
PostedStrategyTypes == StrategyTypes \cup {"laser"}
PostedMasses == {0, 1000}
PostedTimes == {-10, 0, 3, 12}
PostedDiameters == {0, 2}

\* the dictionary with the given keys, its values taken from all
Restrict(all, keys) == [k \in keys |-> all[k]]

ApiInit ==
    /\ request = NoRequest
    /\ response = NoResponse
    /\ calculations = <<>>

PostSimulateImpact ==
    \/ simulate_impact(InvalidJson)
    \/ \E keys \in SUBSET ImpactFields, a \in AsteroidValues :
          simulate_impact(JsonObject(Restrict(
              [asteroid |-> a, impact_velocity |-> 15, impact_angle |-> 45,
               impact_location |-> <<0, 0>>], keys)))

PostCreateCustomAsteroid ==
    \/ create_custom_asteroid(InvalidJson)
    \/ \E keys \in SUBSET CustomAsteroidFields :
          create_custom_asteroid(JsonObject(Restrict(
              [diameter_km |-> 1, density_kg_m3 |-> 3000, velocity_km_s |-> 15],
              keys)))

PostMitigationStrategies ==
    \/ get_mitigation_strategies(InvalidJson)
    \/ \E keys \in SUBSET StrategiesFields, m \in PostedMasses,
          d \in PostedDiameters, t \in PostedTimes :
          get_mitigation_strategies(JsonObject(Restrict(
              [asteroid_mass_kg |-> m, asteroid_diameter_km |-> d,
               deflection_time_years |-> t], keys)))

PostSimulateMitigation ==
    \/ simulate_mitigation(InvalidJson)
    \/ \E keys \in SUBSET MitigationFields, st \in PostedStrategyTypes,
          m \in PostedMasses, t \in PostedTimes :
          simulate_mitigation(JsonObject(Restrict(
              [strategy_type |-> st, asteroid_mass_kg |-> m,
               deflection_time_years |-> t], keys)))

PostEnergyToMagnitude ==
    \/ convert_energy_to_magnitude(InvalidJson)
    \/ \E keys \in SUBSET MagnitudeFields :
          convert_energy_to_magnitude(JsonObject(Restrict(
              [energy_joules |-> 1000, comment |-> "x"], keys)))

PostAppSimulateImpact ==
    \/ app_simulate_impact(InvalidJson)
    \/ \E keys \in SUBSET ImpactFields, a \in AsteroidValues :
          app_simulate_impact(JsonObject(Restrict(
              [asteroid |-> a, impact_velocity |-> 15, impact_angle |-> 45,
               impact_location |-> <<0, 0>>], keys)))

\* the response has gone to the client: the next request can come
ResponseSent ==
    /\ request # NoRequest
    /\ request' = NoRequest
    /\ response' = NoResponse
    /\ calculations' = <<>>

NextApi ==
    \/ ResponseSent
    \/ PostSimulateImpact
    \/ PostCreateCustomAsteroid
    \/ PostMitigationStrategies
    \/ PostSimulateMitigation
    \/ PostEnergyToMagnitude
    \/ PostAppSimulateImpact

----------------------------------------------------------------------------
\* api/simulation_routes.py: POST /api/simulation/attempt-deflection, which
\* works on the global game_engine

\* the 'strategy' values a request body may carry
StrategyNames == DefenseStrategies \cup {"nuclear"}

\* strategy_map.get(strategy_name)
strategy_map == [n \in DefenseStrategies |-> n]

\* ret is the response: its status and the fields of its JSON body, with the
\* strategy and deflection_force the request gave
route_attempt_deflection(strategy_name, deflection_force) ==
    LET strategy == Get(strategy_map, strategy_name, None)
        sent == [op |-> "route_attempt_deflection",
                 strategy |-> strategy_name, force |-> deflection_force]
        error(status) == sent @@ [status |-> status, success |-> FALSE]
    IN  IF strategy = None
        THEN /\ ret' = error(400)
             /\ UNCHANGED <<state, level, score, time_remaining, asteroid,
                            simulation_time, game_start_time>>
        ELSE IF asteroid = NoObject
        THEN \* game_engine.asteroid.mass raises AttributeError
             /\ ret' = error(500)
             /\ UNCHANGED <<state, level, score, time_remaining, asteroid,
                            simulation_time, game_start_time>>
        ELSE \E deflection_percentage \in
                  {CASE strategy = "kinetic" ->
                          calculate_kinetic_impactor_deflection(
                              The(asteroid).mass, Rat(deflection_force, 1000))
                     [] strategy = "gravity" ->
                          calculate_gravity_tractor_deflection(
                              The(asteroid).mass, Rat(deflection_force, 1000))
                     [] strategy = "laser" ->
                          calculate_laser_ablation_deflection(
                              The(asteroid).mass, Rat(deflection_force, 1000))} :
             LET success == RLess(Rat(1, 10), deflection_percentage)
                 score_bonus == RInt(RMul(deflection_percentage, Rat(1000, 1)))
             IN  /\ score' = IF success THEN score + score_bonus ELSE score
                 /\ ret' = sent @@
                           [status |-> 200, success |-> TRUE,
                            deflection_success |-> success,
                            score_bonus |-> IF success THEN score_bonus ELSE 0]
                 /\ UNCHANGED <<state, level, time_remaining, asteroid,
                                simulation_time, game_start_time>>

StartGame == \E lvl \in 0..5 : start_game(lvl)
AttemptDeflection ==
    /\ score < MaxScore
    /\ \E strategy \in DefenseStrategies, force \in Forces :
          attempt_deflection(strategy, force)
UpdateGameState == \E delta_time \in DeltaTimes : update_game_state(delta_time)
PauseGame == pause_game
ResumeGame == resume_game
ResetGame == reset_game
RouteAttemptDeflection ==
    /\ score < MaxRouteScore
    /\ \E strategy_name \in StrategyNames, deflection_force \in Forces :
          route_attempt_deflection(strategy_name, deflection_force)

----------------------------------------------------------------------------
\* Two requests at a time on the process-global game_engine
\* (game_engine.py line 347; app.run serves each request in its own thread).
\* A thread runs one GameEngine method; every read of a field and every
\* write of a field is a step of its own, and the steps of the two threads
\* interleave.

thrVars == <<threads, snapshot, launches>>

ThreadIds == {1, 2}

\* the fields of the engine as one record
Engine ==
    [state |-> state, level |-> level, score |-> score,
     time_remaining |-> time_remaining, asteroid |-> asteroid,
     simulation_time |-> simulation_time,
     game_start_time |-> game_start_time]

NoThreadCall == [op |-> "none"]

\* tmp is the value read from a field and not yet written back, pct the
\* deflection_percentage of attempt_deflection
IdleThread == [call |-> NoThreadCall, pc |-> "idle", tmp |-> 0, pct |-> Rat(0, 1)]

\* the calls a request thread may make
ThreadCalls ==
    {[op |-> "update_game_state", delta_time |-> d] : d \in {20, 100}}
    \cup {[op |-> "start_game", level |-> l, velocity |-> 10, density |-> 2000] :
             l \in {0, 1, 5}}
    \cup {[op |-> "attempt_deflection", strategy |-> st, force |-> 1000] :
             st \in {"kinetic", "gravity"}}

\* a thread at the first statement of the method
StartThread(c) ==
    [call |-> c,
     pc |-> CASE c.op = "update_game_state" -> "u_test"
              [] c.op = "start_game" -> "s_test"
              [] c.op = "attempt_deflection" -> "a_test",
     tmp |-> 0, pct |-> Rat(0, 1)]

Goto(e, t, pc) == [e |-> e, t |-> [t EXCEPT !.pc = pc]]

\* the method returns or raises: the locals are gone
Finish(e, t) ==
    [e |-> e, t |-> [t EXCEPT !.pc = "done", !.tmp = 0, !.pct = Rat(0, 1)]]

\* one step of update_game_state(delta_time)
update_game_state_step(e, t) ==
    LET delta_time == t.call.delta_time
    IN  CASE t.pc = "u_test" ->
                IF e.state # "playing" THEN Finish(e, t)
                ELSE Goto(e, t, "u_load_simulation_time")
          [] t.pc = "u_load_simulation_time" ->
                Goto(e, [t EXCEPT !.tmp = e.simulation_time],
                     "u_store_simulation_time")
          [] t.pc = "u_store_simulation_time" ->
                Goto([e EXCEPT !.simulation_time = t.tmp + delta_time], t,
                     "u_load_time_remaining")
          [] t.pc = "u_load_time_remaining" ->
                Goto(e, [t EXCEPT !.tmp = e.time_remaining],
                     "u_store_time_remaining")
          [] t.pc = "u_store_time_remaining" ->
                Goto([e EXCEPT !.time_remaining = t.tmp - delta_time], t,
                     "u_test_time_up")
          [] t.pc = "u_test_time_up" ->
                IF e.time_remaining <= 0 THEN Goto(e, t, "u_set_game_over")
                ELSE IF e.asteroid # NoObject THEN Goto(e, t, "u_move")
                ELSE Finish(e, t)
          [] t.pc = "u_move" ->
                IF e.asteroid = NoObject THEN Goto(e, t, "u_check_impact")
                ELSE Goto([e EXCEPT !.asteroid =
                             Some(_update_asteroid_position(The(e.asteroid),
                                                            delta_time))],
                          t, "u_check_impact")
          [] t.pc = "u_check_impact" ->
                IF e.asteroid # NoObject /\ _check_impact(The(e.asteroid))
                THEN Goto(e, t, "u_set_game_over")
                ELSE Finish(e, t)
          [] t.pc = "u_set_game_over" ->
                Finish([e EXCEPT !.state = "game_over"], t)

\* one step of start_game(level)
start_game_step(e, t) ==
    LET lvl == t.call.level
    IN  CASE t.pc = "s_test" ->
                IF lvl \notin DOMAIN GAME_LEVELS THEN Finish(e, t)
                ELSE Goto(e, t, "s_level")
          [] t.pc = "s_level" ->
                Goto([e EXCEPT !.level = lvl], t, "s_state")
          [] t.pc = "s_state" ->
                Goto([e EXCEPT !.state = "playing"], t, "s_score")
          [] t.pc = "s_score" ->
                Goto([e EXCEPT !.score = 0], t, "s_simulation_time")
          [] t.pc = "s_simulation_time" ->
                Goto([e EXCEPT !.simulation_time = 0], t, "s_game_start_time")
          [] t.pc = "s_game_start_time" ->
                Goto([e EXCEPT !.game_start_time = "now"], t, "s_asteroid")
          [] t.pc = "s_asteroid" ->
                \* the name of the asteroid is read from self.level
                Goto([e EXCEPT !.asteroid =
                        Some(_create_asteroid_for_level(
                                e.level, GAME_LEVELS[lvl],
                                t.call.velocity, t.call.density))],
                     t, "s_time_remaining")
          [] t.pc = "s_time_remaining" ->
                Finish([e EXCEPT !.time_remaining =
                          GAME_LEVELS[lvl].time_limit], t)

\* one step of attempt_deflection(strategy, deflection_force)
attempt_deflection_step(e, t) ==
    CASE t.pc = "a_test" ->
            IF e.asteroid = NoObject THEN Finish(e, t)
            ELSE Goto(e, t, "a_deflection")
      [] t.pc = "a_deflection" ->
            IF e.asteroid = NoObject
            THEN \* self.asteroid.mass raises AttributeError
                 Finish(e, t)
            ELSE LET mass == The(e.asteroid).mass
                     f == Rat(t.call.force, 1000)
                     deflection_percentage ==
                        CASE t.call.strategy = "kinetic" ->
                                calculate_kinetic_impactor_deflection(mass, f)
                          [] t.call.strategy = "gravity" ->
                                calculate_gravity_tractor_deflection(mass, f)
                          [] t.call.strategy = "laser" ->
                                calculate_laser_ablation_deflection(mass, f)
                 IN  The({IF RLess(Rat(1, 10), pct)
                          THEN Goto(e, [t EXCEPT !.pct = pct], "a_load_score")
                          ELSE Finish(e, t) :
                          pct \in {deflection_percentage}})
      [] t.pc = "a_load_score" ->
            \* self.score is read before _calculate_deflection_score is called
            Goto(e, [t EXCEPT !.tmp = e.score], "a_store_score")
      [] t.pc = "a_store_score" ->
            Finish([e EXCEPT !.score =
                      t.tmp + _calculate_deflection_score(t.pct)], t)

\* one step of the method the thread is in
step(e, t) ==
    CASE t.call.op = "update_game_state" -> update_game_state_step(e, t)
      [] t.call.op = "start_game" -> start_game_step(e, t)
      [] t.call.op = "attempt_deflection" -> attempt_deflection_step(e, t)

RECURSIVE RunFrom(_, _)
\* the engine after thread t has run to its end with no other thread
RunFrom(e, t) ==
    IF t.pc = "done" THEN e
    ELSE The({RunFrom(r.e, r.t) : r \in {step(e, t)}})

\* the engine after the call c made on engine e, alone
RunAlone(e, c) == RunFrom(e, StartThread(c))

ThreadsInit ==
    /\ threads = [i \in ThreadIds |-> IdleThread]
    /\ snapshot = [e |-> [state |-> "menu", level |-> 1, score |-> 0,
                          time_remaining |-> 0, asteroid |-> NoObject,
                          simulation_time |-> 0, game_start_time |-> None],
                   calls |-> [i \in ThreadIds |-> NoThreadCall]]
    /\ launches = 0

\* two requests arrive while no other request is being served
LaunchRequests ==
    /\ launches < MaxLaunches
    /\ \A i \in ThreadIds : threads[i].pc \in {"idle", "done"}
    /\ \E calls \in [ThreadIds -> ThreadCalls] :
          /\ threads' = [i \in ThreadIds |-> StartThread(calls[i])]
          /\ snapshot' = [e |-> Engine, calls |-> calls]
    /\ launches' = launches + 1
    /\ UNCHANGED <<state, level, score, time_remaining, asteroid,
                   simulation_time, game_start_time>>

\* thread i takes its next step
ThreadStep(i) ==
    /\ threads[i].pc \notin {"idle", "done"}
    /\ \E r \in {step(Engine, threads[i])} :
          /\ state' = r.e.state
          /\ level' = r.e.level
          /\ score' = r.e.score
          /\ time_remaining' = r.e.time_remaining
          /\ asteroid' = r.e.asteroid
          /\ simulation_time' = r.e.simulation_time
          /\ game_start_time' = r.e.game_start_time
          /\ threads' = [threads EXCEPT ![i] = r.t]
    /\ UNCHANGED <<snapshot, launches>>

NextThreads ==
    \/ LaunchRequests
    \/ \E i \in ThreadIds : ThreadStep(i)

vars == <<gameVars, calcVars, apiVars, thrVars>>

Init == GameInit /\ CalcIdle /\ ApiInit /\ ThreadsInit

Next ==
    \/ StartGame /\ UNCHANGED <<calcVars, apiVars, thrVars>>
    \/ AttemptDeflection /\ UNCHANGED <<calcVars, apiVars, thrVars>>
    \/ UpdateGameState /\ UNCHANGED <<calcVars, apiVars, thrVars>>
    \/ PauseGame /\ UNCHANGED <<calcVars, apiVars, thrVars>>
    \/ ResumeGame /\ UNCHANGED <<calcVars, apiVars, thrVars>>
    \/ ResetGame /\ UNCHANGED <<calcVars, apiVars, thrVars>>
    \/ RouteAttemptDeflection /\ UNCHANGED <<calcVars, apiVars, thrVars>>

\* the game engine
Spec == Init /\ [][Next]_vars

InitCalc == GameInit /\ CalcInit /\ ApiInit /\ ThreadsInit

\* the calculators
SpecCalc == InitCalc /\ [][NextCalc /\ UNCHANGED <<gameVars, apiVars, thrVars>>]_vars

\* the POST handlers
SpecApi == Init /\ [][NextApi /\ UNCHANGED <<gameVars, calcVars, thrVars>>]_vars

\* the request threads
SpecThreads == Init /\ [][NextThreads /\ UNCHANGED <<ret, calcVars, apiVars>>]_vars

----------------------------------------------------------------------------
\* C1: GameEngine avoids negative time: in every reachable state the stored
\* time_remaining, which get_game_status reports, is >= 0.
C1_TimeNeverNegative ==
    /\ time_remaining >= 0
    /\ get_game_status.time_remaining >= 0

\* C1: a game started at level 5 (60 s) has had a tick of 100 s
C1_TimeRanOut ==
    /\ level = 5
    /\ time_remaining < 0

----------------------------------------------------------------------------
\* the calculators (SpecCalc)

\* the deflection_time and asteroid_mass of a call of a calculate_*_deflection
DeflectionTimeOf(c) == IF c.op = IonOp THEN c.args[3] ELSE c.args[4]
AsteroidMassOf(c) == c.args[1]

\* C2: none of the four MitigationSystem.calculate_*_deflection methods
\* propagates an exception; when a computation inside fails, and so whenever
\* asteroid_mass = 0 divides by zero, the zeroed DeflectionResult comes back.
C2_FailureGivesZeroedResult ==
    call.op \in DeflectionOps =>
        /\ out.propagated = None
        /\ out.caught # None => out.value = ZeroedDeflectionResult
        /\ AsteroidMassOf(call) = 0 => out.value = ZeroedDeflectionResult

\* C2: calculate_nuclear_deflection has divided by asteroid_mass = 0 and
\* returned a result that is not the zeroed one
C2_NuclearDividesByZero ==
    /\ call.op = NuclearOp
    /\ AsteroidMassOf(call) = 0
    /\ out.propagated = None
    /\ out.caught = None
    /\ out.value.velocity_change.k = "nan"
    /\ out.value # ZeroedDeflectionResult

\* 0.5 * mass * (velocity_km_s * 1000)^2
HalfMassVelocitySquared(mass, velocity_km_s) ==
    FMul(FMul(F(1, 2, 0), mass), FSquare(FMul(FInt(velocity_km_s), FInt(1000))))

\* C3: each of the three implementations of the energy formula gives
\* 0.5 * mass * (velocity_km_s * 1000)^2 whatever the impact angle.
C3_EnergyIgnoresAngle ==
    call.op \in EnergyOps =>
        FEq(out.value, HalfMassVelocitySquared(call.args[1], call.args[2]))

\* C3: an implementation has been called with an angle below 90 degrees and
\* returned less than 0.5 * mass * (velocity_km_s * 1000)^2
C3_AngleScalesEnergy ==
    /\ call.op \in {EnergyServiceOp, EnergyModelOp}
    /\ call.args[3] = 30
    /\ FEq(FMul(FInt(2), out.value),
           HalfMassVelocitySquared(call.args[1], call.args[2]))

\* the megatons a call of a TNT conversion has returned
MegatonsOf(c, o) ==
    IF c.op = TntModelOp THEN o.value ELSE o.value.tnt_equivalent_megatons

\* C4: ImpactSimulation.energy_to_tnt_equivalent(E), the
\* tnt_equivalent_megatons of ImpactSimulationService.calculate_crater_dimensions(E)
\* and that of the energy-to-magnitude reply all equal E / 4.184e15.
C4_TntIsEnergyOver4184e12 ==
    call.op \in TntOps =>
        FEq(MegatonsOf(call, out), FDiv(call.args[1], F(4184, 1, 12)))

\* C4: calculate_crater_dimensions has been given 4.184e15 J and answered
\* 1 megaton
C4_OneMegaton ==
    /\ call.op = TntServiceOp
    /\ FEq(call.args[1], F(4184, 1, 12))
    /\ FEq(out.value.tnt_equivalent_megatons, FInt(1))

\* C5: a call of a calculation method leaves every field of every calculator
\* object as it was, except Asteroid.calculate_mass_from_diameter, which
\* stores the mass and the density; the result of every Asteroid method but
\* calculate_kinetic_energy_at_impact is the one the Asteroid gave when it
\* was constructed.
C5_OnlyMassFromDiameterWrites ==
    [][/\ call'.op # MassFromDiameterOp => UNCHANGED objects
       /\ call'.op \in AsteroidOps \ {KineticEnergyAtImpactOp} =>
             out'.value = AsteroidMethod(asteroid_constructed, call'.op,
                                         call'.args).value]_vars

\* C5: calculate_kinetic_energy_at_impact has been called on an Asteroid
\* whose mass an earlier calculate_mass_from_diameter replaced, and the
\* energy is not the one the Asteroid as constructed gives
C5_EnergyAfterMassFromDiameter ==
    /\ call.op = KineticEnergyAtImpactOp
    /\ model_asteroid # asteroid_constructed
    /\ out.value # Asteroid_calculate_kinetic_energy_at_impact(
                       asteroid_constructed).value

\* C5 as stated: no call of a calculation method changes a field of the
\* object it is called on
C5_NoCallWritesAField == [][UNCHANGED objects]_vars

\* C9: for asteroid_mass > 0 and deflection_force in [0, 1] the three
\* deflection functions of calculations/mitigation.py return a value in [0, 1].
C9_PercentageInUnitRange ==
    (/\ call.op \in PctOps
     /\ RLess(Rat(0, 1), call.args[1])
     /\ RLeq(Rat(0, 1), call.args[2])
     /\ RLeq(call.args[2], Rat(1, 1))) =>
        /\ RLeq(Rat(0, 1), out.value)
        /\ RLeq(out.value, Rat(1, 1))

\* C9: calculate_kinetic_impactor_deflection was given a mass so small that
\* the product of the uncapped factors exceeds 1, and returned
\* 0.3 * deflection_force * DEFLECTION_EFFICIENCY
C9_CapApplied ==
    /\ call.op = PctKineticOp
    /\ RLess(Rat(1, 1),
             calculate_kinetic_impactor_deflection_uncapped(call.args[1],
                                                            call.args[2]))
    /\ out.value = RMul(RMul(Rat(3, 10), call.args[2]), DEFLECTION_EFFICIENCY)

\* C8: validate_input_parameters answers every params with velocity <= 0 by
\* is_valid = False and an errors list holding 'Velocity must be positive'.
C8_NonPositiveVelocityRejected ==
    (/\ call.op = ValidateOp
     /\ "velocity" \in DOMAIN call.args[1]
     /\ call.args[1]["velocity"] <= 0) =>
        /\ ~out.value.is_valid
        /\ \E i \in DOMAIN out.value.errors :
              out.value.errors[i] = "Velocity must be positive"

\* C8: validate_input_parameters has accepted a velocity of exactly 0
C8_ZeroVelocityAccepted ==
    /\ call.op = ValidateOp
    /\ "velocity" \in DOMAIN call.args[1]
    /\ call.args[1]["velocity"] = 0
    /\ out.value.is_valid

\* C10: the confidence_level of the DeflectionResult of each of the four
\* calculate_*_deflection methods lies in [0, 1], whatever the deflection_time.
C10_ConfidenceInUnitRange ==
    call.op \in DeflectionOps =>
        /\ RLeq(Rat(0, 1), out.value.confidence_level)
        /\ RLeq(out.value.confidence_level, Rat(1, 1))

\* C10: a deflection was calculated for a negative deflection_time and its
\* confidence_level is below 0
C10_NegativeConfidence ==
    /\ call.op \in DeflectionOps
    /\ DeflectionTimeOf(call) < 0
    /\ out.caught = None
    /\ RLess(out.value.confidence_level, Rat(0, 1))

----------------------------------------------------------------------------
\* the POST handlers (SpecApi)

\* field is the first of required_fields that data lacks
IsFirstMissing(field, required_fields, data) ==
    \E i \in 1..Len(required_fields) :
       /\ required_fields[i] = field
       /\ field \notin DOMAIN data
       /\ \A j \in 1..(i - 1) : required_fields[j] \in DOMAIN data

\* the request being handled went to the api blueprint with a JSON object
BlueprintJsonRequest ==
    /\ request.route \in ApiBlueprintRoutes
    /\ request.body.json

\* C6: a POST endpoint of the api blueprint given a JSON object without one
\* of its required fields answers 400 with success false and an error naming
\* the first missing field, having run no calculation; mitigation/simulate
\* given an unknown strategy_type answers 400 having run no calculation.
C6_MissingFieldIs400 ==
    BlueprintJsonRequest =>
        LET required_fields == RequiredFields(request.route)
            data == request.body.data
            lacking == \E i \in 1..Len(required_fields) :
                          required_fields[i] \notin DOMAIN data
        IN  /\ lacking =>
                 /\ response.status = 400
                 /\ response.success = FALSE
                 /\ IsFirstMissing(response.error.field, required_fields, data)
                 /\ calculations = <<>>
            /\ (/\ request.route = MitigationRoute
                /\ ~lacking
                /\ data["strategy_type"] \notin StrategyTypes) =>
                 /\ response.status = 400
                 /\ response.success = FALSE
                 /\ calculations = <<>>

\* C6: mitigation/simulate was given a strategy_type but neither of the
\* other two required fields, and named asteroid_mass_kg
C6_SecondFieldNamed ==
    /\ request.route = MitigationRoute
    /\ request.body.json
    /\ DOMAIN request.body.data = {"strategy_type"}
    /\ response.status = 400
    /\ response.error.field = "asteroid_mass_kg"
    /\ calculations = <<>>

\* C7: a POST to the impact-simulation endpoint with a body that is not
\* valid JSON is answered with status 400.
C7_InvalidJsonIs400 ==
    (/\ request.route \in {ImpactRoute, AppImpactRoute}
     /\ ~request.body.json) =>
        response.status = 400

\* C7: the blueprint's impact-simulation handler has answered a body that is
\* not valid JSON with status 500
C7_InvalidJsonIs500 ==
    /\ request.route = ImpactRoute
    /\ ~request.body.json
    /\ response.status = 500

----------------------------------------------------------------------------
\* the game engine (Spec)

\* the fields of the engine, without what the last call returned
engineFields == <<state, level, score, time_remaining, asteroid,
                  simulation_time, game_start_time>>

\* the fields have the values GameEngine.__init__ gives them
FreshEngine ==
    /\ state = "menu"
    /\ level = 1
    /\ score = 0
    /\ time_remaining = 0
    /\ asteroid = NoObject
    /\ simulation_time = 0
    /\ game_start_time = None

\* C11: after reset_game, called in any reachable state, every field has the
\* value a freshly constructed GameEngine gives it, and a reset_game that
\* follows a reset_game changes no field.
C11_ResetGivesFreshEngine ==
    [][ret'.op = "reset_game" =>
          /\ FreshEngine'
          /\ ret.op = "reset_game" => UNCHANGED engineFields]_vars

\* C11: reset_game has been called and the engine is as constructed
C11_ResetDone ==
    /\ ret.op = "reset_game"
    /\ FreshEngine

\* C12: start_game with a level that is no key of GAME_LEVELS raises
\* ValueError and changes no field; with a key of GAME_LEVELS it ends in
\* PLAYING with score 0, simulation_time 0, an asteroid and the time_limit of
\* the level as time_remaining, whatever the state before.
C12_StartGameContract ==
    [][ret'.op = "start_game" =>
          IF ret'.level \notin DOMAIN GAME_LEVELS
          THEN /\ ret'.raised = "ValueError"
               /\ UNCHANGED engineFields
          ELSE /\ ret'.raised = None
               /\ state' = "playing"
               /\ level' = ret'.level
               /\ score' = 0
               /\ simulation_time' = 0
               /\ asteroid' # NoObject
               /\ time_remaining' = GAME_LEVELS[ret'.level].time_limit]_vars

\* C12: start_game(0) was refused while a game with a score was over
C12_InvalidLevelRefused ==
    /\ ret.op = "start_game"
    /\ ret.level = 0
    /\ ret.raised = "ValueError"
    /\ state = "game_over"
    /\ score > 0

----------------------------------------------------------------------------
\* more of the calculators (SpecCalc)

\* the segment from p1 to p2 has a point within radius of the origin
SegmentMeetsSphere(p1, p2, radius) ==
    LET d == <<p2[1] - p1[1], p2[2] - p1[2], p2[3] - p1[3]>>
        a == Dot(d, d)
        n == -Dot(p1, d)
    IN  IF n <= 0 THEN Dot(p1, p1) <= radius * radius
        ELSE IF n >= a THEN Dot(p2, p2) <= radius * radius
        ELSE a * Dot(p1, p1) - n * n <= a * radius * radius

\* both ends of the segment are outside the sphere
EndsOutside(p1, p2, radius) ==
    /\ Dot(p1, p1) > radius * radius
    /\ Dot(p2, p2) > radius * radius

\* C13: calculate_earth_intersection returns a result, not None, for every
\* trajectory with two consecutive points whose segment passes through the
\* Earth sphere, a segment from outside through the sphere to outside
\* included.
C13_CrossingIsFound ==
    (/\ call.op = EarthIntersectionOp
     /\ \E i \in 1..(Len(call.args[1]) - 1) :
           SegmentMeetsSphere(call.args[1][i], call.args[1][i + 1],
                              EarthRadiusQuarters)) =>
        /\ out.propagated = None
        /\ out.value # NoObject

\* C13: the trajectory is one segment from outside through the sphere to
\* outside, and calculate_earth_intersection returned None
C13_CrossingMissed ==
    /\ call.op = EarthIntersectionOp
    /\ Len(call.args[1]) = 2
    /\ EndsOutside(call.args[1][1], call.args[1][2], EarthRadiusQuarters)
    /\ SegmentMeetsSphere(call.args[1][1], call.args[1][2], EarthRadiusQuarters)
    /\ out.propagated = None
    /\ out.value = NoObject

\* C14: for every Asteroid a, Asteroid.from_dict(a.to_dict()) equals a in
\* each of the thirteen fields.
C14_RoundTrip ==
    call.op = RoundTripOp =>
        /\ DOMAIN out.value = DOMAIN call.args[1]
        /\ \A field \in DOMAIN call.args[1] :
              out.value[field] = call.args[1][field]

\* C14: an Asteroid with a name, a diameter, an empty orbital_elements and a
\* close approach went through to_dict and from_dict
C14_RoundTripDone ==
    /\ call.op = RoundTripOp
    /\ call.args[1].name = "Apophis"
    /\ call.args[1].orbital_elements = {}
    /\ Len(call.args[1].close_approach_data) = 1
    /\ out.value.diameter = F(37, 100, 0)
    /\ out.value.orbital_elements = {}

----------------------------------------------------------------------------
\* more of the game engine (Spec)

\* C15: update_game_state called in a state other than PLAYING changes no
\* field and returns the current state only, and GAME_OVER is left only
\* through start_game or reset_game.
C15_UpdateIdleOutsidePlaying ==
    [][/\ (ret'.op = "update_game_state" /\ state # "playing") =>
             /\ UNCHANGED engineFields
             /\ ret' = [op |-> "update_game_state", state |-> state]
       /\ (state = "game_over" /\ state' # "game_over") =>
             ret'.op \in {"start_game", "reset_game"}]_vars

\* C15: update_game_state was called on a paused game of level 3 and
\* returned the state alone
C15_UpdateWhilePaused ==
    /\ ret = [op |-> "update_game_state", state |-> "paused"]
    /\ state = "paused"
    /\ level = 3
    /\ time_remaining = GAME_LEVELS[3].time_limit

\* C16: in PLAYING a tick with time_remaining - delta_time <= 0 ends the game
\* with reason 'time_up' and leaves the asteroid where it was.
C16_TimeUpComesFirst ==
    [][(/\ state = "playing"
        /\ ret'.op = "update_game_state"
        /\ time_remaining' <= 0) =>
          /\ state' = "game_over"
          /\ ret'.state = "game_over"
          /\ ret'.reason = "time_up"
          /\ asteroid' = asteroid]_vars

\* C16: the time ran out on a tick and the asteroid is still where
\* start_game put it
C16_TimeUp ==
    /\ ret.op = "update_game_state"
    /\ state = "game_over"
    /\ "reason" \in DOMAIN ret
    /\ ret.reason = "time_up"
    /\ time_remaining <= 0
    /\ asteroid # NoObject
    /\ The(asteroid).position = <<0, 0, 0>>

\* C17: pause_game changes the state from PLAYING to PAUSED and nothing else,
\* resume_game from PAUSED to PLAYING and nothing else; elsewhere each does
\* nothing, so resume_game after pause_game gives back the engine as it was.
C17_PauseResume ==
    [][/\ ret'.op = "pause_game" =>
             /\ state' = IF state = "playing" THEN "paused" ELSE state
             /\ UNCHANGED <<level, score, time_remaining, asteroid,
                            simulation_time, game_start_time>>
       /\ ret'.op = "resume_game" =>
             /\ state' = IF state = "paused" THEN "playing" ELSE state
             /\ UNCHANGED <<level, score, time_remaining, asteroid,
                            simulation_time, game_start_time>>]_vars

\* C17: resume_game was called on a game that is over and left it over
C17_ResumeLeavesGameOver ==
    /\ ret.op = "resume_game"
    /\ state = "game_over"

\* C18: the first update_game_state(delta_time) after start_game(level), with
\* 0 <= delta_time < time_limit, leaves the game PLAYING.
C18_FirstTickKeepsPlaying ==
    [][(/\ ret.op = "start_game"
        /\ ret.raised = None
        /\ ret'.op = "update_game_state"
        /\ time_remaining' > 0
        /\ time_remaining' <= GAME_LEVELS[level].time_limit) =>
          state' = "playing"]_vars

\* C18: a game of level 1 (300 s) is over by impact after one tick of 20 s,
\* the asteroid being 30 km from the centre of the Earth
C18_ImpactOnFirstTick ==
    /\ ret.op = "update_game_state"
    /\ "reason" \in DOMAIN ret
    /\ ret.reason = "impact"
    /\ state = "game_over"
    /\ level = 1
    /\ simulation_time = 20
    /\ time_remaining = 280
    /\ _check_impact(The(asteroid))

\* C19: while the state is PLAYING, PAUSED or GAME_OVER, simulation_time plus
\* time_remaining is the time_limit of the current level.
C19_ClockSum ==
    state \in {"playing", "paused", "game_over"} =>
        simulation_time + time_remaining = GAME_LEVELS[level].time_limit

\* C19: a game of level 2 is over after a tick of 60 s
C19_TickedGameOver ==
    /\ state = "game_over"
    /\ level = 2
    /\ simulation_time = 60
    /\ time_remaining = GAME_LEVELS[2].time_limit - 60

\* the deflection attempt_deflection computes for a strategy
EngineDeflection(strategy, force) ==
    LET mass == The(asteroid).mass
        f == Rat(force, 1000)
    IN  CASE strategy = "kinetic" ->
                calculate_kinetic_impactor_deflection(mass, f)
          [] strategy = "gravity" ->
                calculate_gravity_tractor_deflection(mass, f)
          [] strategy = "laser" ->
                calculate_laser_ablation_deflection(mass, f)

\* C20: the route /api/simulation/attempt-deflection reports the success flag
\* GameEngine.attempt_deflection reports for the same strategy and force and
\* adds to the score what the engine adds, and, like the engine, it refuses a
\* missing asteroid as an error of the client.
C20_RouteAgreesWithEngine ==
    [][(/\ ret'.op = "route_attempt_deflection"
        /\ ret'.strategy \in DefenseStrategies) =>
          IF asteroid = NoObject
          THEN ret'.status = 400 /\ score' = score
          ELSE LET pct == EngineDeflection(ret'.strategy, ret'.force)
                   success == RLess(Rat(1, 10), pct)
               IN  /\ ret'.status = 200
                   /\ ret'.deflection_success = success
                   /\ score' - score =
                        IF success THEN _calculate_deflection_score(pct)
                        ELSE 0]_vars

\* C20: the route has answered a successful deflection of a new game and
\* added less than BASE_SCORE to the score
C20_RouteAddsLess ==
    /\ ret.op = "route_attempt_deflection"
    /\ ret.status = 200
    /\ ret.deflection_success
    /\ score = ret.score_bonus
    /\ score < BASE_SCORE

----------------------------------------------------------------------------
\* the request threads (SpecThreads)

\* the fields a request can observe in the end
Final(e) == <<e.score, e.time_remaining, e.simulation_time, e.state>>

\* the two calls made one after the other, the first one first
Serial(e, first, second) == RunAlone(RunAlone(e, first), second)

\* C21: when two requests have run their operations on game_engine at the
\* same time, the score, time_remaining, simulation_time and state are those
\* that one of the two sequential orders of the operations leaves.
C21_AsIfSequential ==
    (\A i \in ThreadIds : threads[i].pc = "done") =>
        Final(Engine) \in
            {Final(Serial(snapshot.e, snapshot.calls[1], snapshot.calls[2])),
             Final(Serial(snapshot.e, snapshot.calls[2], snapshot.calls[1]))}

\* C21: two successful attempt_deflection calls on one game have both
\* returned and the score has grown by the bonus of one of them
C21_LostIncrement ==
    /\ \A i \in ThreadIds :
          /\ threads[i].pc = "done"
          /\ threads[i].call = [op |-> "attempt_deflection",
                                strategy |-> "kinetic", force |-> 1000]
    /\ snapshot.e.asteroid # NoObject
    /\ asteroid = snapshot.e.asteroid
    /\ Final(RunAlone(snapshot.e, snapshot.calls[1]))[1] > snapshot.e.score
    /\ score = Final(RunAlone(snapshot.e, snapshot.calls[1]))[1]

----------------------------------------------------------------------------
\* more of the calculators (SpecCalc)

CraterModelOp == "ImpactSimulation.calculate_crater_dimensions"
CraterOps == {CraterModelOp, TntServiceOp}

\* the diameter and depth of the crater law the energy calls for: the simple
\* law (1.2, depth = diameter / 5) under 1 megaton, else the complex law
\* (1.8, depth = diameter / 10), on the megatons to the power 0.294
CraterByRegime(energy_joules) ==
    LET megatons == FDiv(energy_joules, F(4184, 1, 12))
        simple == FLess(megatons, 1)
        coef == IF simple THEN Rat(12, 10) ELSE Rat(18, 10)
        ratio == IF simple THEN Rat(1, 5) ELSE Rat(1, 10)
    IN  [diameter_km |-> PowTerm(coef, 0, megatons, 294),
         depth_km |-> PowTerm(RMul(coef, ratio), 0, megatons, 294)]

\* C22: ImpactSimulation.calculate_crater_dimensions(E) and
\* ImpactSimulationService.calculate_crater_dimensions(E) both return the
\* diameter and depth of the simple law when E is under 1 megaton of TNT and
\* of the complex law otherwise, hence the same diameter and depth.
C22_CratersAgree ==
    call.op \in CraterOps =>
        /\ out.value.diameter_km = CraterByRegime(call.args[1]).diameter_km
        /\ out.value.depth_km = CraterByRegime(call.args[1]).depth_km
        /\ ImpactSimulation_calculate_crater_dimensions(
              impact_simulation, call.args[1]).diameter_km
           = ImpactSimulationService_calculate_crater_dimensions(
                impact_service, call.args[1]).diameter_km

\* C22: ImpactSimulation.calculate_crater_dimensions has been given
\* 4.184e15 J, 1 megaton, and has answered with the simple law, where the
\* service answers with the complex law
C22_SimpleLawAtOneMegaton ==
    /\ call.op = CraterModelOp
    /\ FEq(call.args[1], F(4184, 1, 12))
    /\ out.value.diameter_km = PowTerm(Rat(12, 10), 0, FInt(1), 294)
    /\ out.value.depth_km = PowTerm(Rat(12, 50), 0, FInt(1), 294)
    /\ ImpactSimulationService_calculate_crater_dimensions(
          impact_service, call.args[1]).diameter_km
       = PowTerm(Rat(18, 10), 0, FInt(1), 294)

\* how severe a damage level is
Severity(damage_level) ==
    CASE damage_level = "Complete destruction" -> 4
      [] damage_level = "Severe damage" -> 3
      [] damage_level = "Moderate damage" -> 2
      [] damage_level = "Light damage" -> 1
      [] damage_level = "No significant damage" -> 0

\* the level the thresholds 200, 100, 50, 20 give the overpressure of a
\* positive TNT equivalent at a distance
LevelByThresholds(tnt, distance) ==
    CHOOSE l \in 0..4 :
       /\ l = 4 <=> OverpressureExceeds(tnt, distance, 200)
       /\ l >= 3 <=> OverpressureExceeds(tnt, distance, 100)
       /\ l >= 2 <=> OverpressureExceeds(tnt, distance, 50)
       /\ l >= 1 <=> OverpressureExceeds(tnt, distance, 20)

\* the blast effects of one energy at several distances that a call returned
BlastEffectsReturned ==
    /\ call.op \in {BlastModelOp, BlastFullImpactOp}
    /\ out.propagated = None

\* C23: calculate_blast_effects gives the damage level of the thresholds 200,
\* 100, 50 and 20 on the overpressure, and of two distances for one energy
\* the larger never has the more severe level: the levels of
\* simulate_full_impact's blast_effects do not increase over 10, 50, 100, 500
\* and 1000 km.
C23_BlastFallsOff ==
    /\ BlastEffectsReturned =>
          \A d1 \in DOMAIN out.value, d2 \in DOMAIN out.value :
             /\ d1 < d2 =>
                   Severity(out.value[d2].damage_level)
                      <= Severity(out.value[d1].damage_level)
             /\ out.value[d1].overpressure_kpa # Special("nan", TRUE) =>
                   LET o == out.value[d1].overpressure_kpa
                   IN  o.thousand_cbrt_of.n > 0 =>
                          Severity(out.value[d1].damage_level)
                             = LevelByThresholds(o.thousand_cbrt_of,
                                                 o.over_square_of)
    /\ (call.op = BlastServiceOp /\ out.propagated = None) =>
          \A d2 \in BlastDistances :
             call.args[2] < d2 =>
                Severity(ImpactSimulationService_calculate_blast_effects(
                            impact_service, call.args[1], d2).value.damage_level)
                   <= Severity(out.value.damage_level)

\* C23: simulate_full_impact's blast_effects for 1e22 J go from complete
\* destruction at 10 km over moderate damage at 500 km to no significant
\* damage at 1000 km
C23_LevelsFallOverDistances ==
    /\ call.op = BlastFullImpactOp
    /\ out.propagated = None
    /\ out.value[10].damage_level = "Complete destruction"
    /\ out.value[500].damage_level = "Moderate damage"
    /\ out.value[1000].damage_level = "No significant damage"

=============================================================================
